---- MODULE Spec2Model ----
(***************************************************************************)
(* Version cascade engine of the ontology repository                       *)
(* (scripts/lib/version-cascade.js): maxBumpType, calculateModuleBumps,    *)
(* buildModuleDependencyGraph, propagateDependencyCascade,                 *)
(* calculateBundleBumps and calculateOntologyBump.                         *)
(*                                                                         *)
(* JavaScript values are modelled as follows.  A Map is a function whose   *)
(* DOMAIN is the set of its keys.  An array is a sequence.  A string id    *)
(* that may hold path separators is the sequence of its "/"-separated      *)
(* segments, and a file "a/b/c.json" is the sequence <<"a","b","c">> (the  *)
(* ".json" suffix is implied on the last segment).  null/undefined in the  *)
(* place of an array is the value Null.                                    *)
(***************************************************************************)
EXTENDS Integers, Sequences, FiniteSets, TLC

VARIABLES
  call,         \* the exported function this run calls
  pc,           \* position of the call: which function is about to run / "done"
  entityIndex,  \* the EntityIndex argument: [modules, bundles]
  changes,      \* the changes argument (array of change records, or Null)
  bumps,        \* the argument of maxBumpType (array of bump types, or Null)
  moduleGraph,  \* the DepGraph of modules
  moduleBumps,  \* the moduleBumps argument (Map moduleId -> bumpType)
  bundleBumps,  \* the bundleBumps argument (Map bundleId -> bumpType)
  ret,          \* the value the call returned
  sourceModuleId, \* the module getModuleScope is called for
  overrides,      \* the overrides argument of applyOverrides (object moduleId -> bumpType)
  version,        \* the version argument of calculateNewVersion (string, or Null)
  bumpType        \* the bumpType argument of calculateNewVersion

vars ==
  <<call, pc, entityIndex, changes, bumps, moduleGraph, moduleBumps, bundleBumps, ret,
    sourceModuleId, overrides, version, bumpType>>

(***************************************************************************)
(* Bounds of the model                                                     *)
(***************************************************************************)
MaxLen == 4        \* longest array handed to maxBumpType
MaxDeps == 2       \* most entries in one module's dependencies
MaxChanges == 2    \* longest list of change records
MaxBundleModules == 2  \* most entries in one bundle's modules

(***************************************************************************)
(* Values                                                                  *)
(***************************************************************************)
Null == [n \in {0} |-> 0]          \* null / undefined where an array is expected
NoValue == "none"                  \* a variable the running call does not use
EmptyMap == [k \in {} |-> "patch"] \* new Map()

BumpType == {"patch", "minor", "major"}

\* const BUMP_PRIORITY = { major: 3, minor: 2, patch: 1 }
BUMP_PRIORITY == [major |-> 3, minor |-> 2, patch |-> 1]

\* BUMP_PRIORITY[bump] || 0
Priority(bump) == IF bump \in DOMAIN BUMP_PRIORITY THEN BUMP_PRIORITY[bump] ELSE 0

\* const ENTITY_TYPES = ['categories', 'properties', 'subobjects', 'templates']
ENTITY_TYPES == <<"categories", "properties", "subobjects", "templates">>

\* Map.prototype.set
MapSet(m, k, v) == [x \in DOMAIN m \cup {k} |-> IF x = k THEN v ELSE m[x]]

\* All Maps from a subset of keys to bump types
BumpMaps(keys) == UNION {[d -> BumpType] : d \in SUBSET keys}

\* All arrays over S of length at most n
SeqUpTo(S, n) == UNION {[1..k -> S] : k \in 0..n}

\* The elements of an array
Range(s) == {s[i] : i \in DOMAIN s}

(***************************************************************************)
(* maxBumpType                                                             *)
(***************************************************************************)
RECURSIVE maxBumpLoop(_, _, _)
\* for (const bump of bumps) { if (priority > maxPriority) { max = bump; ... } }
maxBumpLoop(list, i, max) ==
  IF i > Len(list) THEN max
  ELSE LET bump == list[i]
           priority == Priority(bump)
           maxPriority == Priority(max)
       IN  IF priority > maxPriority
             THEN maxBumpLoop(list, i + 1, bump)
             ELSE maxBumpLoop(list, i + 1, max)

\* Mutation: the comparison is reversed, so nothing ever replaces 'patch'.
maxBumpType_reversed(list) ==
  IF list = Null \/ Len(list) = 0 THEN "patch"
  ELSE IF \E i \in DOMAIN list : Priority(list[i]) < Priority("patch")
         THEN list[1] ELSE "patch"

RECURSIVE lastAbovePatch(_, _, _)
lastAbovePatch(list, i, max) ==
  IF i > Len(list) THEN max
  ELSE IF Priority(list[i]) > Priority("patch")
         THEN lastAbovePatch(list, i + 1, list[i])
         ELSE lastAbovePatch(list, i + 1, max)

\* Mutation: each element is compared with BUMP_PRIORITY.patch instead of
\* maxPriority, so the last element above patch wins.
maxBumpType_lastWins(list) ==
  IF list = Null \/ Len(list) = 0 THEN "patch" ELSE lastAbovePatch(list, 1, "patch")

maxBumpType(list) ==
  IF list = Null \/ Len(list) = 0 THEN "patch" ELSE maxBumpLoop(list, 1, "patch")

(***************************************************************************)
(* Specification of a call of maxBumpType                                  *)
(***************************************************************************)
InitMax ==
  /\ call = "maxBumpType"
  /\ version = NoValue
  /\ bumpType = NoValue
  /\ overrides = NoValue
  /\ pc = "maxBumpType"
  /\ bumps \in SeqUpTo(BumpType, MaxLen) \cup {Null}
  /\ entityIndex = NoValue
  /\ changes = NoValue
  /\ moduleGraph = NoValue
  /\ moduleBumps = NoValue
  /\ bundleBumps = NoValue
  /\ ret = NoValue
  /\ sourceModuleId = NoValue

CallMaxBumpType ==
  /\ pc = "maxBumpType"
  /\ ret' = maxBumpType(bumps)
  /\ pc' = "done"
  /\ UNCHANGED <<call, sourceModuleId, overrides, version, bumpType, entityIndex, changes, bumps, moduleGraph, moduleBumps, bundleBumps>>

NextMax == CallMaxBumpType

SpecMax == InitMax /\ [][NextMax]_vars

MaxDone == call = "maxBumpType" /\ pc = "done"

\* C5: for every list over {patch, minor, major}, maxBumpType returns the
\* highest-priority element that occurs in the list, and returns patch for
\* an empty or absent list.
C5_MaxIsHighestPresent ==
  MaxDone =>
    IF bumps = Null \/ bumps = <<>>
      THEN ret = "patch"
      ELSE /\ ret \in Range(bumps)
           /\ \A b \in Range(bumps) : BUMP_PRIORITY[b] <= BUMP_PRIORITY[ret]

\* The call returned minor for a list that holds patch after minor and no major.
C5_Witness ==
  /\ MaxDone
  /\ bumps # Null
  /\ Len(bumps) = 3
  /\ bumps[1] = "patch" /\ bumps[2] = "minor" /\ bumps[3] = "patch"
  /\ ret = "minor"

\* The array s rearranged by the permutation p of its indices
Permuted(s, p) == [i \in DOMAIN s |-> s[p[i]]]

\* C6: maxBumpType is commutative and idempotent: the same value for every
\* permutation of its input, maxBumpType([x, x]) = x, and
\* maxBumpType([maxBumpType(xs)]) = maxBumpType(xs).
C6_CommutativeIdempotent ==
  (MaxDone /\ bumps # Null) =>
    /\ \A p \in Permutations(DOMAIN bumps) : maxBumpType(Permuted(bumps, p)) = ret
    /\ \A x \in BumpType : maxBumpType(<<x, x>>) = x
    /\ maxBumpType(<<ret>>) = ret

\* The call returned major for a list whose reversal differs from it.
C6_Witness ==
  /\ MaxDone
  /\ bumps # Null
  /\ Len(bumps) = 3
  /\ bumps[1] = "major" /\ bumps[2] = "minor" /\ bumps[3] = "patch"
  /\ ret = "major"

(***************************************************************************)
(* The EntityIndex (only the parts the cascade engine reads)               *)
(***************************************************************************)
\* Module ids used by the repository's tests
ModuleNames == {"Core", "Lab", "Analysis"}

\* entityIndex.modules is a Map in insertion order: a sequence of module
\* entities, no two with the same id.
ModuleEntity(id, dependencies, categories, templates) ==
  [id |-> id, dependencies |-> dependencies, categories |-> categories,
   properties |-> {}, subobjects |-> {}, templates |-> templates]

\* entityIndex.modules.has(id)
HasModule(index, id) == \E i \in DOMAIN index.modules : index.modules[i].id = id

\* entityIndex.modules.get(id)
GetModule(index, id) ==
  index.modules[CHOOSE i \in DOMAIN index.modules : index.modules[i].id = id]

(***************************************************************************)
(* DepGraph of the dependency-graph package, as the engine uses it:        *)
(* nodes, outgoingEdges, addNode, addDependency, dependenciesOf and        *)
(* overallOrder.  A call either returns a value or throws an Error.        *)
(***************************************************************************)
Return(v) == [threw |-> FALSE, value |-> v]
Throw(message) == [threw |-> TRUE, message |-> message]

\* The text every DepGraphCycleError message starts with
CycleMessage == "Dependency Cycle Found"

\* err.message && err.message.includes('Dependency Cycle Found')
IsCycleError(outcome) == outcome.threw /\ outcome.message = CycleMessage

RECURSIVE Closure(_, _)
\* The nodes of S and everything reachable from them along outgoing edges
Closure(graph, S) ==
  LET next == S \cup UNION {graph.outgoingEdges[n] : n \in S}
  IN  IF next = S THEN S ELSE Closure(graph, next)

\* The nodes reachable from name along one or more edges
Reachable(graph, name) == Closure(graph, graph.outgoingEdges[name])

\* The depth-first search started at name meets a node of its current path
CycleFrom(graph, name) ==
  \E n \in Reachable(graph, name) \cup {name} : n \in Reachable(graph, n)

\* Mutation: graph.dependenciesOf(name, true), the leavesOnly flag set: only
\* the dependencies that have no dependency of their own are returned.
dependenciesOf_leavesOnly(graph, name) ==
  IF CycleFrom(graph, name)
    THEN Throw(CycleMessage)
    ELSE Return({d \in Reachable(graph, name) \ {name} : graph.outgoingEdges[d] = {}})

\* graph.dependenciesOf(name): the transitive dependencies of name, name
\* itself removed, or a DepGraphCycleError
dependenciesOf(graph, name) ==
  IF CycleFrom(graph, name)
    THEN Throw(CycleMessage)
    ELSE Return(Reachable(graph, name) \ {name})

\* All arrangements of the nodes in which every node comes after all of its
\* dependencies
TopologicalOrders(graph) ==
  LET n == Cardinality(graph.nodes)
  IN  {o \in [1..n -> graph.nodes] :
         /\ \A i, j \in 1..n : i # j => o[i] # o[j]
         /\ \A i, j \in 1..n : o[j] \in graph.outgoingEdges[o[i]] => j < i}

\* graph.overallOrder(): a DepGraphCycleError when the graph holds a cycle,
\* else the nodes in an order with dependencies first.  Which of these orders
\* the depth-first search yields depends on insertion order; every one of
\* them is a possible outcome here.
overallOrder(graph) ==
  IF \E n \in graph.nodes : CycleFrom(graph, n)
    THEN {Throw(CycleMessage)}
    ELSE {Return(o) : o \in TopologicalOrders(graph)}

(***************************************************************************)
(* buildModuleDependencyGraph                                              *)
(***************************************************************************)
\* Mutation: a dependency on an unknown module ends the construction of the
\* module's edges (addDependency throws on a node that was never added).
buildModuleDependencyGraph_abortOnUnknown(index) ==
  LET nodes == {index.modules[i].id : i \in DOMAIN index.modules}
  IN  [nodes |-> nodes,
       outgoingEdges |->
         [m \in nodes |->
            IF \A depId \in GetModule(index, m).dependencies : HasModule(index, depId)
              THEN GetModule(index, m).dependencies
              ELSE {}]]

buildModuleDependencyGraph(index) ==
  LET nodes == {index.modules[i].id : i \in DOMAIN index.modules}
  IN  [nodes |-> nodes,
       outgoingEdges |->
         [m \in nodes |->
            {depId \in GetModule(index, m).dependencies : HasModule(index, depId)}]]

(***************************************************************************)
(* propagateDependencyCascade                                              *)
(***************************************************************************)
RECURSIVE ArrayOf(_)
\* The elements of a set as an array
ArrayOf(S) ==
  IF S = {} THEN <<>>
  ELSE LET x == CHOOSE y \in S : TRUE IN <<x>> \o ArrayOf(S \ {x})

\* Mutation: the cascadedBumps.has(depId) test is missing, so undefined is
\* pushed for a dependency without a bump.
DepBumps_noHasCheck(cascadedBumps, deps) ==
  LET all == ArrayOf(deps)
  IN  [i \in DOMAIN all |->
         IF all[i] \in DOMAIN cascadedBumps THEN cascadedBumps[all[i]] ELSE "undefined"]

\* for (const depId of deps) { if (cascadedBumps.has(depId)) depBumps.push(...) }
DepBumps(cascadedBumps, deps) ==
  LET withBump == ArrayOf({depId \in deps : depId \in DOMAIN cascadedBumps})
  IN  [i \in DOMAIN withBump |-> cascadedBumps[withBump[i]]]

\* Mutation: a module without a bump of its own is left without one (the
\* else branch that hands it the cascaded bump is missing).
cascadeModule_onlyExisting(graph, cascadedBumps, moduleId) ==
  LET depBumps == DepBumps(cascadedBumps, dependenciesOf(graph, moduleId).value)
  IN  IF Len(depBumps) > 0 /\ moduleId \in DOMAIN cascadedBumps
        THEN MapSet(cascadedBumps, moduleId,
                    maxBumpType(<<cascadedBumps[moduleId], maxBumpType(depBumps)>>))
        ELSE cascadedBumps

\* Mutation: the cascaded bump overwrites the module's own bump.
cascadeModule_overwrite(graph, cascadedBumps, moduleId) ==
  LET depBumps == DepBumps(cascadedBumps, dependenciesOf(graph, moduleId).value)
  IN  IF Len(depBumps) > 0
        THEN MapSet(cascadedBumps, moduleId, maxBumpType(depBumps))
        ELSE cascadedBumps

\* Mutation: only the first bumped dependency is looked at.
cascadeModule_firstDep(graph, cascadedBumps, moduleId) ==
  LET depBumps == DepBumps(cascadedBumps, dependenciesOf(graph, moduleId).value)
  IN  IF Len(depBumps) > 0
        THEN IF moduleId \in DOMAIN cascadedBumps
               THEN MapSet(cascadedBumps, moduleId,
                           maxBumpType(<<cascadedBumps[moduleId], depBumps[1]>>))
               ELSE MapSet(cascadedBumps, moduleId, depBumps[1])
        ELSE cascadedBumps

\* The body of the loop over order: one module takes the bumps of its
\* dependencies.
cascadeModule(graph, cascadedBumps, moduleId) ==
  LET deps == dependenciesOf(graph, moduleId).value
      depBumps == DepBumps(cascadedBumps, deps)
  IN  IF Len(depBumps) > 0
        THEN LET maxDepBump == maxBumpType(depBumps)
             IN  IF moduleId \in DOMAIN cascadedBumps
                   THEN LET currentBump == cascadedBumps[moduleId]
                            finalBump == maxBumpType(<<currentBump, maxDepBump>>)
                        IN  MapSet(cascadedBumps, moduleId, finalBump)
                   ELSE MapSet(cascadedBumps, moduleId, maxDepBump)
        ELSE cascadedBumps

RECURSIVE cascadeLoop_dependentsFirst(_, _, _, _)
\* Mutation: the order is walked from its end (dependents first) and each
\* module reads its direct dependencies only, so one call carries a bump a
\* single edge further.
cascadeLoop_dependentsFirst(graph, order, i, cascadedBumps) ==
  IF i > Len(order) THEN cascadedBumps
  ELSE LET moduleId == order[Len(order) + 1 - i]
           depBumps == DepBumps(cascadedBumps, graph.outgoingEdges[moduleId])
           own == IF moduleId \in DOMAIN cascadedBumps
                    THEN <<cascadedBumps[moduleId]>> ELSE <<>>
       IN  cascadeLoop_dependentsFirst(graph, order, i + 1,
             IF Len(depBumps) > 0
               THEN MapSet(cascadedBumps, moduleId, maxBumpType(own \o depBumps))
               ELSE cascadedBumps)

RECURSIVE cascadeLoop(_, _, _, _)
\* for (const moduleId of order) { ... }
cascadeLoop(graph, order, i, cascadedBumps) ==
  IF i > Len(order) THEN cascadedBumps
  ELSE cascadeLoop(graph, order, i + 1, cascadeModule(graph, cascadedBumps, order[i]))

RECURSIVE tolerantLoop(_, _, _, _)
tolerantLoop(graph, order, i, cascadedBumps) ==
  IF i > Len(order) THEN cascadedBumps
  ELSE LET depBumps == DepBumps(cascadedBumps, Reachable(graph, order[i]) \ {order[i]})
           own == IF order[i] \in DOMAIN cascadedBumps
                    THEN <<cascadedBumps[order[i]]>> ELSE <<>>
       IN  tolerantLoop(graph, order, i + 1,
                        IF Len(depBumps) > 0
                          THEN MapSet(cascadedBumps, order[i], maxBumpType(own \o depBumps))
                          ELSE cascadedBumps)

\* Mutation: the graph tolerates cycles (new DepGraph({ circular: true })), so
\* nothing is thrown and the cascade runs over cyclic graphs too.
propagateDependencyCascade_circular(graph, bumpsIn) ==
  IF \E n \in graph.nodes : CycleFrom(graph, n)
    THEN {Return(tolerantLoop(graph, ArrayOf(graph.nodes), 1, bumpsIn))}
    ELSE {Return(cascadeLoop(graph, o.value, 1, bumpsIn)) : o \in overallOrder(graph)}

\* The outcomes of propagateDependencyCascade(moduleGraph, moduleBumps)
propagateDependencyCascade(graph, bumpsIn) ==
  LET cascadedBumps == bumpsIn     \* new Map(moduleBumps)
  IN  {IF order.threw
         THEN IF IsCycleError(order)
                THEN Return(cascadedBumps)
                ELSE Throw(order.message)
         ELSE Return(cascadeLoop(graph, order.value, 1, cascadedBumps))
       : order \in overallOrder(graph)}

(***************************************************************************)
(* Specification of a cascade over the module graph of an EntityIndex      *)
(***************************************************************************)
DependencyLists == {d \in SUBSET ModuleNames : Cardinality(d) <= MaxDeps}

InitCascade ==
  /\ call = "propagateDependencyCascade"
  /\ version = NoValue
  /\ bumpType = NoValue
  /\ overrides = NoValue
  /\ pc = "buildModuleDependencyGraph"
  /\ \E core, lab, analysis \in DependencyLists :
       entityIndex = [modules |-> <<ModuleEntity("Core", core, {}, {}),
                                    ModuleEntity("Lab", lab, {}, {}),
                                    ModuleEntity("Analysis", analysis, {}, {})>>,
                      bundles |-> <<>>]
  /\ moduleBumps \in BumpMaps(ModuleNames)
  /\ changes = NoValue
  /\ bumps = NoValue
  /\ moduleGraph = NoValue
  /\ bundleBumps = NoValue
  /\ ret = NoValue
  /\ sourceModuleId = NoValue

CallBuildModuleDependencyGraph ==
  /\ pc = "buildModuleDependencyGraph"
  /\ moduleGraph' = buildModuleDependencyGraph(entityIndex)
  /\ pc' = call     \* the caller goes on with the function it built the graph for
  /\ UNCHANGED <<call, sourceModuleId, overrides, version, bumpType, entityIndex, changes, bumps, moduleBumps, bundleBumps, ret>>

\* Mutation: const cascadedBumps = moduleBumps, one Map under two names, so
\* every set() of the loop writes to the caller's Map.
mapsAfterCascade_aliased(bumpsIn, outcome) ==
  LET written == IF outcome.threw THEN bumpsIn ELSE outcome.value
  IN  [moduleBumps |-> written, cascadedBumps |-> written]

\* The two Map objects of a call when it has returned: moduleBumps, the
\* caller's Map, which the function only reads, and cascadedBumps, the Map
\* that new Map(moduleBumps) created and that every set() writes to.
mapsAfterCascade(bumpsIn, outcome) ==
  [moduleBumps |-> bumpsIn,
   cascadedBumps |-> IF outcome.threw THEN bumpsIn ELSE outcome.value]

CallPropagateDependencyCascade ==
  /\ pc = "propagateDependencyCascade"
  /\ \E outcome \in propagateDependencyCascade(moduleGraph, moduleBumps) :
       /\ ret' = outcome
       /\ moduleBumps' = mapsAfterCascade(moduleBumps, outcome).moduleBumps
  /\ pc' = "done"
  /\ UNCHANGED <<call, sourceModuleId, overrides, version, bumpType, entityIndex, changes, bumps, moduleGraph, bundleBumps>>

NextCascade == CallBuildModuleDependencyGraph \/ CallPropagateDependencyCascade

SpecCascade == InitCascade /\ [][NextCascade]_vars

CascadeDone == call = "propagateDependencyCascade" /\ pc = "done"

\* The module graph holds a cycle (a self-dependency included)
HasCycle(graph) == \E n \in graph.nodes : n \in Reachable(graph, n)

\* a is at least as high as b in the order patch < minor < major
AtLeast(a, b) == BUMP_PRIORITY[a] >= BUMP_PRIORITY[b]

\* module a depends on module b, directly or transitively
DependsOn(graph, a, b) == b \in Reachable(graph, a)

\* C1 as stated: in the returned map, for every module graph built from an
\* EntityIndex and every pair of modules where A depends (directly or
\* transitively) on B and B has a bump in the result, A also has a bump in
\* the result and it is at least as high as B's.
C1_DependentsAtLeast_AnyGraph ==
  CascadeDone =>
    /\ ~ret.threw
    /\ \A a, b \in moduleGraph.nodes :
         (DependsOn(moduleGraph, a, b) /\ b \in DOMAIN ret.value) =>
           /\ a \in DOMAIN ret.value
           /\ AtLeast(ret.value[a], ret.value[b])

\* C1 amended: the same, for every module graph without a dependency cycle.
C1_DependentsAtLeast_Acyclic ==
  (CascadeDone /\ ~HasCycle(moduleGraph)) =>
    /\ ~ret.threw
    /\ \A a, b \in moduleGraph.nodes :
         (DependsOn(moduleGraph, a, b) /\ b \in DOMAIN ret.value) =>
           /\ a \in DOMAIN ret.value
           /\ AtLeast(ret.value[a], ret.value[b])

\* Analysis -> Lab -> Core, only Core was bumped (major), and the cascade
\* handed major to Lab and to Analysis.
C1_Witness ==
  /\ CascadeDone
  /\ moduleGraph.outgoingEdges = [Core |-> {}, Lab |-> {"Core"}, Analysis |-> {"Lab"}]
  /\ moduleBumps = [Core |-> "major"]
  /\ ~ret.threw
  /\ ret.value = [Core |-> "major", Lab |-> "major", Analysis |-> "major"]

\* [B's own input bump if it has one, X]
OwnAnd(bumpsIn, b, x) ==
  (IF b \in DOMAIN bumpsIn THEN <<bumpsIn[b]>> ELSE <<>>) \o <<x>>

\* C2 as stated: for any acyclic module graph in which B depends directly or
\* transitively on A and A's calculated bump is X, the bump of B after the
\* cascade equals maxBumpType([B's own input bump if it has one, X]).
C2_DependentEqualsMax ==
  (CascadeDone /\ ~HasCycle(moduleGraph)) =>
    /\ ~ret.threw
    /\ \A b, a \in moduleGraph.nodes :
         (DependsOn(moduleGraph, b, a) /\ a \in DOMAIN moduleBumps) =>
           /\ b \in DOMAIN ret.value
           /\ ret.value[b] = maxBumpType(OwnAnd(moduleBumps, b, moduleBumps[a]))

\* C2 amended: under the same conditions the bump of B after the cascade is
\* at least maxBumpType([B's own input bump if it has one, X]), and equals it
\* when no other transitive dependency of B has an input bump higher than X.
C2_DependentAtLeastMax ==
  (CascadeDone /\ ~HasCycle(moduleGraph)) =>
    /\ ~ret.threw
    /\ \A b, a \in moduleGraph.nodes :
         (DependsOn(moduleGraph, b, a) /\ a \in DOMAIN moduleBumps) =>
           LET x == moduleBumps[a]
               expected == maxBumpType(OwnAnd(moduleBumps, b, x))
               noHigher == \A d \in Reachable(moduleGraph, b) \cap DOMAIN moduleBumps :
                             AtLeast(x, moduleBumps[d])
           IN  /\ b \in DOMAIN ret.value
               /\ AtLeast(ret.value[b], expected)
               /\ noHigher => ret.value[b] = expected

\* Lab depends on Core and on Analysis; Core's bump minor is the highest of
\* Lab's dependencies and above Lab's own patch, and Lab ends with minor.
C2_Witness ==
  /\ CascadeDone
  /\ moduleGraph.outgoingEdges = [Core |-> {}, Lab |-> {"Core", "Analysis"}, Analysis |-> {}]
  /\ moduleBumps = [Core |-> "minor", Lab |-> "patch", Analysis |-> "patch"]
  /\ ~ret.threw
  /\ ret.value = [Core |-> "minor", Lab |-> "minor", Analysis |-> "patch"]

\* C3: if the module graph contains a cycle anywhere (a self-dependency
\* included), the cascade returns a map with exactly the keys and values of
\* its input: no module receives a propagated bump and nothing is thrown.
C3_CycleReturnsInput ==
  (CascadeDone /\ HasCycle(moduleGraph)) =>
    /\ ~ret.threw
    /\ ret.value = moduleBumps

\* Core depends on itself; Analysis -> Lab lies outside the cycle and Lab was
\* bumped, yet Analysis received nothing.
C3_Witness ==
  /\ CascadeDone
  /\ moduleGraph.outgoingEdges = [Core |-> {"Core"}, Lab |-> {}, Analysis |-> {"Lab"}]
  /\ moduleBumps = [Lab |-> "major"]
  /\ ~ret.threw
  /\ DOMAIN ret.value = {"Lab"}

\* C4: for every graph (cyclic or not) and every input map, every module
\* that has a bump in the input is still a key of the result and its
\* resulting bump is never lower than its input bump.
C4_Monotonic ==
  CascadeDone =>
    /\ ~ret.threw
    /\ \A m \in DOMAIN moduleBumps :
         /\ m \in DOMAIN ret.value
         /\ AtLeast(ret.value[m], moduleBumps[m])

\* Lab (minor) depends on Core (patch): Lab kept its higher bump.
C4_Witness ==
  /\ CascadeDone
  /\ moduleGraph.outgoingEdges = [Core |-> {}, Lab |-> {"Core"}, Analysis |-> {}]
  /\ moduleBumps = [Core |-> "patch", Lab |-> "minor"]
  /\ ~ret.threw
  /\ ret.value = [Core |-> "patch", Lab |-> "minor"]

(***************************************************************************)
(* Entities, files and change records                                      *)
(***************************************************************************)
\* Entity ids: Agent, Page, and the nested Property/Page (stored at
\* templates/Property/Page.json)
CategoryIds == {<<"Agent">>}
TemplateIds == {<<"Page">>, <<"Property", "Page">>}

\* The key `${entityType}:${entityId}` of the reverse index
Key(entityType, entityId) == <<entityType, entityId>>

\* The file "<entityType>/<id>.json" of an entity
FileOf(entityType, entityId) == <<entityType>> \o entityId

\* A change record of the ChangeDetector for the entity's file
ChangeRecord(entityType, entityId, changeType) ==
  [file |-> FileOf(entityType, entityId), entityType |-> entityType,
   changeType |-> changeType]

\* The entity a change record is about: its file is "<entityType>/<id>.json"
ChangedEntity(change) == Key(change.file[1], Tail(change.file))

(***************************************************************************)
(* buildReverseModuleIndex                                                 *)
(***************************************************************************)
\* The keys one module entity lists: for each entityType of ENTITY_TYPES,
\* for each entityId of moduleEntity[entityType] || []
ListedKeys(moduleEntity) ==
  UNION {{Key(ENTITY_TYPES[t], entityId) : entityId \in moduleEntity[ENTITY_TYPES[t]]}
         : t \in DOMAIN ENTITY_TYPES}

RECURSIVE reverseIndexLoop(_, _, _)
\* for (const [moduleId, moduleEntity] of entityIndex.modules) { ... set(key, moduleId) }
reverseIndexLoop(index, i, reverseIndex) ==
  IF i > Len(index.modules) THEN reverseIndex
  ELSE LET moduleEntity == index.modules[i]
           keys == ListedKeys(moduleEntity)
       IN  reverseIndexLoop(index, i + 1,
             [k \in DOMAIN reverseIndex \cup keys |->
                IF k \in keys THEN moduleEntity.id ELSE reverseIndex[k]])

\* Mutation: the loop over ENTITY_TYPES stops one short, so templates are
\* never indexed.
buildReverseModuleIndex_noTemplates(index) ==
  LET found == reverseIndexLoop(index, 1, EmptyMap)
  IN  [k \in {x \in DOMAIN found : x[1] # ENTITY_TYPES[Len(ENTITY_TYPES)]} |-> found[k]]

buildReverseModuleIndex(index) == reverseIndexLoop(index, 1, EmptyMap)

(***************************************************************************)
(* calculateModuleBumps                                                    *)
(***************************************************************************)
\* parts = change.file.split('/'); entityType = parts[0];
\* fileName = parts[parts.length - 1]; entityId = fileName.replace('.json', '')
\* key = `${entityType}:${entityId}`
ChangeKey(change) ==
  LET parts == change.file
      entityType == parts[1]
      fileName == parts[Len(parts)]
      entityId == <<fileName>>
  IN  Key(entityType, entityId)

RECURSIVE moduleBumpsLoop(_, _, _, _)
\* for (const change of changes) { ... }
moduleBumpsLoop(reverseIndex, changeList, i, acc) ==
  IF i > Len(changeList) THEN acc
  ELSE LET change == changeList[i]
           key == ChangeKey(change)
       IN  IF key \notin DOMAIN reverseIndex
             THEN moduleBumpsLoop(reverseIndex, changeList, i + 1, acc)
             ELSE LET moduleId == reverseIndex[key]
                  IN  IF moduleId \in DOMAIN acc
                        THEN LET existingBump == acc[moduleId]
                                 newBump == maxBumpType(<<existingBump, change.changeType>>)
                             IN  moduleBumpsLoop(reverseIndex, changeList, i + 1,
                                                 MapSet(acc, moduleId, newBump))
                        ELSE moduleBumpsLoop(reverseIndex, changeList, i + 1,
                                             MapSet(acc, moduleId, change.changeType))

calculateModuleBumps(index, changeList) ==
  moduleBumpsLoop(buildReverseModuleIndex(index), changeList, 1, EmptyMap)

(***************************************************************************)
(* Specification of a call of calculateModuleBumps                         *)
(***************************************************************************)
ChangeRecords ==
  {ChangeRecord("categories", id, t) : id \in CategoryIds, t \in BumpType}
    \cup {ChangeRecord("templates", id, t) : id \in TemplateIds, t \in BumpType}

InitModule ==
  /\ call = "calculateModuleBumps"
  /\ version = NoValue
  /\ bumpType = NoValue
  /\ overrides = NoValue
  /\ pc = "calculateModuleBumps"
  /\ \E coreCategories, labCategories \in SUBSET CategoryIds :
       \E coreTemplates, labTemplates \in SUBSET TemplateIds :
         entityIndex = [modules |-> <<ModuleEntity("Core", {}, coreCategories, coreTemplates),
                                      ModuleEntity("Lab", {"Core"}, labCategories, labTemplates)>>,
                        bundles |-> <<>>]
  /\ changes \in SeqUpTo(ChangeRecords, MaxChanges)
  /\ bumps = NoValue
  /\ moduleGraph = NoValue
  /\ moduleBumps = NoValue
  /\ bundleBumps = NoValue
  /\ ret = NoValue
  /\ sourceModuleId = NoValue

CallCalculateModuleBumps ==
  /\ pc = "calculateModuleBumps"
  /\ ret' = calculateModuleBumps(entityIndex, changes)
  /\ pc' = "done"
  /\ UNCHANGED <<call, sourceModuleId, overrides, version, bumpType, entityIndex, changes, bumps, moduleGraph, moduleBumps, bundleBumps>>

NextModule == CallCalculateModuleBumps

SpecModule == InitModule /\ [][NextModule]_vars

ModuleDone == call = "calculateModuleBumps" /\ pc = "done"

\* The module that owns the entity a change record is about, if any
HasOwner(index, change) == ChangedEntity(change) \in DOMAIN buildReverseModuleIndex(index)
OwnerOf(index, change) == buildReverseModuleIndex(index)[ChangedEntity(change)]

\* b is the highest bump type among the values of the non-empty set S
HighestOf(b, S) == b \in S /\ \A x \in S : AtLeast(b, x)

\* C7: calculateModuleBumps returns a map in which a module M is a key
\* exactly when at least one change record refers to an entity owned by M,
\* and M's value is the highest changeType of all such records; a change
\* record whose entity has no owning module never adds a key and never
\* raises any module's bump.
C7_ModuleBumpsFromOwnedChanges ==
  ModuleDone =>
    \A i \in DOMAIN entityIndex.modules :
      LET m == entityIndex.modules[i].id
          owned == {j \in DOMAIN changes :
                      HasOwner(entityIndex, changes[j]) /\ OwnerOf(entityIndex, changes[j]) = m}
      IN  /\ m \in DOMAIN ret <=> owned # {}
          /\ m \in DOMAIN ret => HighestOf(ret[m], {changes[j].changeType : j \in owned})

(***************************************************************************)
(* calculateBundleBumps                                                    *)
(***************************************************************************)
BundleNames == {"Default", "Full"}

\* entityIndex.bundles is a Map in insertion order: a sequence of bundle
\* entities; modules is an array of module ids, or Null when the field is absent
BundleEntity(id, modules) == [id |-> id, modules |-> modules]

RECURSIVE memberBumps(_, _, _)
\* for (const moduleId of moduleIds) { if (moduleBumps.has(moduleId)) bumps.push(...) }
memberBumps(moduleIds, bumpsIn, i) ==
  IF i > Len(moduleIds) THEN <<>>
  ELSE (IF moduleIds[i] \in DOMAIN bumpsIn THEN <<bumpsIn[moduleIds[i]]>> ELSE <<>>)
         \o memberBumps(moduleIds, bumpsIn, i + 1)

\* Mutation: the bundle is set whether or not one of its modules has a bump.
bundleStep_always(bundleEntity, bumpsIn, acc) ==
  LET moduleIds == IF bundleEntity.modules = Null THEN <<>> ELSE bundleEntity.modules
  IN  MapSet(acc, bundleEntity.id, maxBumpType(memberBumps(moduleIds, bumpsIn, 1)))

\* Mutation: the bundle takes the bump of its first bumped module instead of
\* the highest.
bundleStep_firstMember(bundleEntity, bumpsIn, acc) ==
  LET moduleIds == IF bundleEntity.modules = Null THEN <<>> ELSE bundleEntity.modules
      found == memberBumps(moduleIds, bumpsIn, 1)
  IN  IF Len(found) > 0
        THEN MapSet(acc, bundleEntity.id, found[1])
        ELSE acc

\* One round of the loop over entityIndex.bundles
bundleStep(bundleEntity, bumpsIn, acc) ==
  LET moduleIds == IF bundleEntity.modules = Null THEN <<>> ELSE bundleEntity.modules
      found == memberBumps(moduleIds, bumpsIn, 1)
  IN  IF Len(found) > 0
        THEN MapSet(acc, bundleEntity.id, maxBumpType(found))
        ELSE acc

RECURSIVE bundleLoop(_, _, _, _)
\* for (const [bundleId, bundleEntity] of entityIndex.bundles) { ... }
bundleLoop(index, bumpsIn, i, acc) ==
  IF i > Len(index.bundles) THEN acc
  ELSE bundleLoop(index, bumpsIn, i + 1, bundleStep(index.bundles[i], bumpsIn, acc))

calculateBundleBumps(index, bumpsIn) == bundleLoop(index, bumpsIn, 1, EmptyMap)

(***************************************************************************)
(* Specification of a call of calculateBundleBumps                         *)
(***************************************************************************)
BundleModuleLists == SeqUpTo(ModuleNames, MaxBundleModules) \cup {Null}

InitBundle ==
  /\ call = "calculateBundleBumps"
  /\ version = NoValue
  /\ bumpType = NoValue
  /\ overrides = NoValue
  /\ pc = "calculateBundleBumps"
  /\ \E default, full \in BundleModuleLists :
       entityIndex = [modules |-> <<ModuleEntity("Core", {}, {}, {}),
                                    ModuleEntity("Lab", {}, {}, {}),
                                    ModuleEntity("Analysis", {}, {}, {})>>,
                      bundles |-> <<BundleEntity("Default", default),
                                    BundleEntity("Full", full)>>]
  /\ moduleBumps \in BumpMaps(ModuleNames)
  /\ changes = NoValue
  /\ bumps = NoValue
  /\ moduleGraph = NoValue
  /\ bundleBumps = NoValue
  /\ ret = NoValue
  /\ sourceModuleId = NoValue

CallCalculateBundleBumps ==
  /\ pc = "calculateBundleBumps"
  /\ ret' = calculateBundleBumps(entityIndex, moduleBumps)
  /\ pc' = "done"
  /\ UNCHANGED <<call, sourceModuleId, overrides, version, bumpType, entityIndex, changes, bumps, moduleGraph, moduleBumps, bundleBumps>>

NextBundle == CallCalculateBundleBumps

SpecBundle == InitBundle /\ [][NextBundle]_vars

BundleDone == call = "calculateBundleBumps" /\ pc = "done"

\* The member modules of a bundle that have a bump
BumpedMembers(bundleEntity, bumpsIn) ==
  IF bundleEntity.modules = Null THEN {}
  ELSE Range(bundleEntity.modules) \cap DOMAIN bumpsIn

\* C8: calculateBundleBumps contains a bundle as a key exactly when at least
\* one of the bundle's member modules has a bump in moduleBumps, and then its
\* value is the highest of the bumps of those member modules that have one;
\* a bundle none of whose modules has a bump is omitted, not assigned patch.
C8_BundleBumps ==
  BundleDone =>
    /\ DOMAIN ret \subseteq {entityIndex.bundles[i].id : i \in DOMAIN entityIndex.bundles}
    /\ \A i \in DOMAIN entityIndex.bundles :
         LET bundle == entityIndex.bundles[i]
             members == BumpedMembers(bundle, moduleBumps)
         IN  /\ bundle.id \in DOMAIN ret <=> members # {}
             /\ bundle.id \in DOMAIN ret =>
                  HighestOf(ret[bundle.id], {moduleBumps[m] : m \in members})

\* Default = [Core, Lab] where only Core has a bump (minor), Full = [Analysis]
\* without any bump: Default got minor and Full was omitted.
C8_Witness ==
  /\ BundleDone
  /\ entityIndex.bundles[1].modules = <<"Core", "Lab">>
  /\ entityIndex.bundles[2].modules = <<"Analysis">>
  /\ moduleBumps = [Core |-> "minor"]
  /\ ret = [Default |-> "minor"]

(***************************************************************************)
(* calculateOntologyBump                                                   *)
(***************************************************************************)
\* changes.map(c => c.changeType)
ChangeTypes(changeList) == [i \in DOMAIN changeList |-> changeList[i].changeType]

RECURSIVE ownedOnly(_, _, _)
ownedOnly(reverseIndex, changeList, i) ==
  IF i > Len(changeList) THEN <<>>
  ELSE (IF ChangeKey(changeList[i]) \in DOMAIN reverseIndex
          THEN <<changeList[i].changeType>> ELSE <<>>)
         \o ownedOnly(reverseIndex, changeList, i + 1)

\* Mutation: only the changes of entities that belong to a module count.
calculateOntologyBump_ownedOnly(changeList, moduleBumpsArg, bundleBumpsArg) ==
  IF changeList = Null \/ Len(changeList) = 0 THEN "patch"
  ELSE maxBumpType(ownedOnly(buildReverseModuleIndex(entityIndex), changeList, 1))

\* Mutation: the module bumps handed in are folded into the result.
calculateOntologyBump_cascaded(changeList, moduleBumpsArg, bundleBumpsArg) ==
  IF changeList = Null \/ Len(changeList) = 0 THEN "patch"
  ELSE maxBumpType(ChangeTypes(changeList)
                     \o DepBumps(moduleBumpsArg, DOMAIN moduleBumpsArg))

calculateOntologyBump(changeList, moduleBumpsArg, bundleBumpsArg) ==
  IF changeList = Null \/ Len(changeList) = 0 THEN "patch"
  ELSE LET changeTypes == ChangeTypes(changeList)
       IN  maxBumpType(changeTypes)

(***************************************************************************)
(* Specification of a call of calculateOntologyBump                        *)
(***************************************************************************)
\* Agent may belong to Core; the template Page belongs to no module.
OntologyChangeRecords ==
  {ChangeRecord("categories", <<"Agent">>, t) : t \in BumpType}
    \cup {ChangeRecord("templates", <<"Page">>, t) : t \in BumpType}

InitOntology ==
  /\ call = "calculateOntologyBump"
  /\ version = NoValue
  /\ bumpType = NoValue
  /\ overrides = NoValue
  /\ pc = "calculateOntologyBump"
  /\ \E coreCategories \in SUBSET CategoryIds :
       entityIndex = [modules |-> <<ModuleEntity("Core", {}, coreCategories, {}),
                                    ModuleEntity("Lab", {"Core"}, {}, {})>>,
                      bundles |-> <<BundleEntity("Default", <<"Core", "Lab">>)>>]
  /\ changes \in SeqUpTo(OntologyChangeRecords, MaxChanges) \cup {Null}
  /\ moduleBumps \in BumpMaps({"Core", "Lab"})
  /\ bundleBumps \in BumpMaps({"Default"})
  /\ bumps = NoValue
  /\ moduleGraph = NoValue
  /\ ret = NoValue
  /\ sourceModuleId = NoValue

CallCalculateOntologyBump ==
  /\ pc = "calculateOntologyBump"
  /\ ret' = calculateOntologyBump(changes, moduleBumps, bundleBumps)
  /\ pc' = "done"
  /\ UNCHANGED <<call, sourceModuleId, overrides, version, bumpType, entityIndex, changes, bumps, moduleGraph, moduleBumps, bundleBumps>>

NextOntology == CallCalculateOntologyBump

SpecOntology == InitOntology /\ [][NextOntology]_vars

OntologyDone == call = "calculateOntologyBump" /\ pc = "done"

\* C9: calculateOntologyBump returns the highest raw changeType of all
\* change records, records of orphan entities included, and returns patch
\* when there are no changes.
C9_OntologyBumpIsMaxOfChanges ==
  OntologyDone =>
    IF changes = Null \/ changes = <<>>
      THEN ret = "patch"
      ELSE HighestOf(ret, {changes[i].changeType : i \in DOMAIN changes})

\* A patch change of Core's Agent and a major change of the orphan template
\* Page: the ontology bump is major.
C9_Witness ==
  /\ OntologyDone
  /\ changes = <<ChangeRecord("categories", <<"Agent">>, "patch"),
                 ChangeRecord("templates", <<"Page">>, "major")>>
  /\ Key("categories", <<"Agent">>) \in DOMAIN buildReverseModuleIndex(entityIndex)
  /\ Key("templates", <<"Page">>) \notin DOMAIN buildReverseModuleIndex(entityIndex)
  /\ ret = "major"

\* C10: the result of calculateOntologyBump is independent of the
\* moduleBumps and bundleBumps arguments: a call with the same change list
\* and any other moduleBumps/bundleBumps maps returns the same bump level.
C10_IndependentOfBumpArguments ==
  OntologyDone =>
    \A otherModuleBumps \in BumpMaps({"Core", "Lab"}) :
      \A otherBundleBumps \in BumpMaps({"Default"}) :
        calculateOntologyBump(changes, otherModuleBumps, otherBundleBumps) = ret

\* The call was given module and bundle bumps of major and a single patch
\* change, and returned patch.
C10_Witness ==
  /\ OntologyDone
  /\ changes = <<ChangeRecord("categories", <<"Agent">>, "patch")>>
  /\ moduleBumps = [Core |-> "major", Lab |-> "major"]
  /\ bundleBumps = [Default |-> "major"]
  /\ ret = "patch"

(***************************************************************************)
(* calculateVersionCascade                                                 *)
(***************************************************************************)
\* changes.filter(change => !reverseIndex.has(key)), the key derived from the
\* file path as in calculateModuleBumps
orphanFilter(reverseIndex, changeList) ==
  SelectSeq(changeList, LAMBDA change : ChangeKey(change) \notin DOMAIN reverseIndex)

\* The object calculateVersionCascade returns
CascadeResult(changeList, moduleBumpsOut, bundleBumpsOut, ontologyBump, orphanChanges) ==
  [changes |-> changeList, moduleBumps |-> moduleBumpsOut,
   bundleBumps |-> bundleBumpsOut, ontologyBump |-> ontologyBump,
   orphanChanges |-> orphanChanges]

\* The outcomes of calculateVersionCascade(entityIndex, baseBranch), where
\* detected is the changes array detectChanges(entityIndex, baseBranch) gave
calculateVersionCascade(index, detected) ==
  IF detected = Null \/ Len(detected) = 0
    THEN {Return(CascadeResult(<<>>, EmptyMap, EmptyMap, "patch", <<>>))}
    ELSE LET reverseIndex == buildReverseModuleIndex(index)
             graph == buildModuleDependencyGraph(index)
             initialModuleBumps == calculateModuleBumps(index, detected)
         IN  {IF cascaded.threw
                THEN cascaded
                ELSE LET moduleBumpsOut == cascaded.value
                         bundleBumpsOut == calculateBundleBumps(index, moduleBumpsOut)
                         ontologyBump ==
                           calculateOntologyBump(detected, moduleBumpsOut, bundleBumpsOut)
                         orphanChanges == orphanFilter(reverseIndex, detected)
                     IN  Return(CascadeResult(detected, moduleBumpsOut, bundleBumpsOut,
                                              ontologyBump, orphanChanges))
              : cascaded \in propagateDependencyCascade(graph, initialModuleBumps)}

(***************************************************************************)
(* Specification of a call of calculateVersionCascade.  Core and Lab may   *)
(* list the category Agent and the templates Page and Property/Page; each  *)
(* may depend on the other; the bundle Default holds both and Full holds   *)
(* Lab.  The changes are what detectChanges found.                         *)
(***************************************************************************)
InitVersion ==
  /\ call = "calculateVersionCascade"
  /\ version = NoValue
  /\ bumpType = NoValue
  /\ overrides = NoValue
  /\ pc = "calculateVersionCascade"
  /\ \E coreCategories \in SUBSET CategoryIds :
       \E coreTemplates, labTemplates \in SUBSET TemplateIds :
         \E coreDependencies \in SUBSET {"Lab"}, labDependencies \in SUBSET {"Core"} :
           entityIndex =
             [modules |-> <<ModuleEntity("Core", coreDependencies, coreCategories, coreTemplates),
                            ModuleEntity("Lab", labDependencies, {}, labTemplates)>>,
              bundles |-> <<BundleEntity("Default", <<"Core", "Lab">>),
                            BundleEntity("Full", <<"Lab">>)>>]
  /\ changes \in SeqUpTo(ChangeRecords, MaxChanges) \cup {Null}
  /\ bumps = NoValue
  /\ moduleGraph = NoValue
  /\ moduleBumps = NoValue
  /\ bundleBumps = NoValue
  /\ ret = NoValue
  /\ sourceModuleId = NoValue

CallCalculateVersionCascade ==
  /\ pc = "calculateVersionCascade"
  /\ ret' \in calculateVersionCascade(entityIndex, changes)
  /\ pc' = "done"
  /\ UNCHANGED <<call, sourceModuleId, overrides, version, bumpType, entityIndex, changes, bumps, moduleGraph, moduleBumps, bundleBumps>>

NextVersion == CallCalculateVersionCascade

SpecVersion == InitVersion /\ [][NextVersion]_vars

VersionDone == call = "calculateVersionCascade" /\ pc = "done"

\* The changes detected, as an array
Detected == IF changes = Null THEN <<>> ELSE changes

\* The map b holds, for the bundles of the index, what the bumps of their
\* member modules in the map m call for
BundleBumpsOf(index, b, m) ==
  /\ DOMAIN b \subseteq {index.bundles[i].id : i \in DOMAIN index.bundles}
  /\ \A i \in DOMAIN index.bundles :
       LET members == BumpedMembers(index.bundles[i], m)
       IN  /\ index.bundles[i].id \in DOMAIN b <=> members # {}
           /\ index.bundles[i].id \in DOMAIN b =>
                HighestOf(b[index.bundles[i].id], {m[x] : x \in members})

\* C11: calculateVersionCascade composes the steps in order: its moduleBumps
\* are the module bumps after the dependency cascade, its bundleBumps are
\* computed from those cascaded module bumps, its ontologyBump is computed
\* from the raw changes, and its orphanChanges are the changes without an
\* owning module.
C11_ComposesStepsInOrder ==
  VersionDone =>
    /\ ~ret.threw
    /\ Return(ret.value.moduleBumps) \in
         propagateDependencyCascade(buildModuleDependencyGraph(entityIndex),
                                    calculateModuleBumps(entityIndex, Detected))
    /\ BundleBumpsOf(entityIndex, ret.value.bundleBumps, ret.value.moduleBumps)
    /\ ret.value.ontologyBump = maxBumpType(ChangeTypes(Detected))
    /\ ret.value.orphanChanges =
         SelectSeq(Detected, LAMBDA change : ~HasOwner(entityIndex, change))

\* The same with every part but the orphan changes: the composition of the
\* bumps, which the nested id does not disturb
C11_BumpsComposed ==
  VersionDone =>
    /\ ~ret.threw
    /\ Return(ret.value.moduleBumps) \in
         propagateDependencyCascade(buildModuleDependencyGraph(entityIndex),
                                    calculateModuleBumps(entityIndex, Detected))
    /\ BundleBumpsOf(entityIndex, ret.value.bundleBumps, ret.value.moduleBumps)
    /\ ret.value.ontologyBump = maxBumpType(ChangeTypes(Detected))

\* Lab depends on Core, one major change of Core's category Agent: both
\* modules and both bundles end with major and nothing is an orphan.
C11_Example ==
  /\ VersionDone
  /\ entityIndex.modules[1].categories = {<<"Agent">>}
  /\ entityIndex.modules[1].dependencies = {}
  /\ entityIndex.modules[2].dependencies = {"Core"}
  /\ changes = <<ChangeRecord("categories", <<"Agent">>, "major")>>
  /\ ret.value.moduleBumps = [Core |-> "major", Lab |-> "major"]
  /\ ret.value.bundleBumps = [Default |-> "major", Full |-> "major"]
  /\ ret.value.ontologyBump = "major"
  /\ ret.value.orphanChanges = <<>>

(***************************************************************************)
(* getModuleScope (scripts/lib/reference-validator.js)                     *)
(***************************************************************************)
\* A Set of module ids, and null, as values a function returns
JsSet(elements) == [type |-> "Set", elements |-> elements]
JsNull == [type |-> "null"]

\* Mutation: the scope holds the dependencies but not the module itself.
getModuleScope_depsOnly(graph, id) ==
  LET deps == dependenciesOf(graph, id)
  IN  IF deps.threw
        THEN IF IsCycleError(deps) THEN Return(JsNull) ELSE Throw(deps.message)
        ELSE Return(JsSet(deps.value))

\* Mutation: on a cycle the scope built so far is returned.
getModuleScope_scopeOnCycle(graph, id) ==
  LET deps == dependenciesOf(graph, id)
  IN  IF deps.threw
        THEN Return(JsSet({id}))
        ELSE Return(JsSet({id} \cup deps.value))

\* The outcome of getModuleScope(graph, moduleId)
getModuleScope(graph, id) ==
  LET scope == {id}                          \* new Set([moduleId])
      deps == dependenciesOf(graph, id)
  IN  IF deps.threw
        THEN IF IsCycleError(deps) THEN Return(JsNull) ELSE Throw(deps.message)
        ELSE Return(JsSet(scope \cup deps.value))

(***************************************************************************)
(* Specification of the scope of a module: the graph is built from an      *)
(* EntityIndex whose modules may also declare the unknown module Ghost,    *)
(* then getModuleScope is called for one module.                           *)
(***************************************************************************)
UnknownModule == "Ghost"

DeclaredDependencies ==
  {d \in SUBSET (ModuleNames \cup {UnknownModule}) : Cardinality(d) <= MaxDeps}

InitScope ==
  /\ call = "getModuleScope"
  /\ version = NoValue
  /\ bumpType = NoValue
  /\ overrides = NoValue
  /\ pc = "buildModuleDependencyGraph"
  /\ \E core, lab, analysis \in DeclaredDependencies :
       entityIndex = [modules |-> <<ModuleEntity("Core", core, {}, {}),
                                    ModuleEntity("Lab", lab, {}, {}),
                                    ModuleEntity("Analysis", analysis, {}, {})>>,
                      bundles |-> <<>>]
  /\ sourceModuleId \in ModuleNames
  /\ changes = NoValue
  /\ bumps = NoValue
  /\ moduleGraph = NoValue
  /\ moduleBumps = NoValue
  /\ bundleBumps = NoValue
  /\ ret = NoValue

CallGetModuleScope ==
  /\ pc = "getModuleScope"
  /\ ret' = getModuleScope(moduleGraph, sourceModuleId)
  /\ pc' = "done"
  /\ UNCHANGED <<call, sourceModuleId, overrides, version, bumpType, entityIndex, changes, bumps, moduleGraph, moduleBumps, bundleBumps>>

NextScope == CallBuildModuleDependencyGraph \/ CallGetModuleScope

SpecScope == InitScope /\ [][NextScope]_vars

ScopeDone == call = "getModuleScope" /\ pc = "done"
GraphBuilt == call = "getModuleScope" /\ pc # "buildModuleDependencyGraph"

\* The dependencies module m declares in the EntityIndex
Declared(index, m) == GetModule(index, m).dependencies

\* m can reach d along one or more declared dependencies on known modules
RECURSIVE DeclaredPath(_, _, _, _)
DeclaredPath(index, m, d, n) ==
  LET known == {index.modules[i].id : i \in DOMAIN index.modules}
  IN  \/ d \in Declared(index, m) \cap known
      \/ /\ n > 0
         /\ \E x \in Declared(index, m) \cap known : DeclaredPath(index, x, d, n - 1)

\* The known modules m depends on, directly or transitively
TransitiveDependencies(index, m) ==
  {d \in {index.modules[i].id : i \in DOMAIN index.modules} :
     DeclaredPath(index, m, d, Len(index.modules))}

\* m sits on a dependency cycle (a self-dependency included)
OnCycle(index, m) == m \in TransitiveDependencies(index, m)

\* C12 as stated: for every module m that does not itself sit on a
\* dependency cycle, getModuleScope returns a set, and that set is exactly
\* {m} together with every module reachable from m through one or more
\* dependency edges.
C12_ScopeUnlessOnCycle ==
  (ScopeDone /\ ~OnCycle(entityIndex, sourceModuleId)) =>
    ret = Return(JsSet({sourceModuleId} \cup TransitiveDependencies(entityIndex, sourceModuleId)))

\* C12 amended: for every module m such that neither m nor any module
\* reachable from m sits on a dependency cycle, getModuleScope returns
\* exactly {m} together with every module reachable from m; for a module
\* that is off every cycle but reaches a module on one it returns null.
C12_ScopeUnlessCycleReachable ==
  (ScopeDone /\ ~OnCycle(entityIndex, sourceModuleId)) =>
    IF \E d \in TransitiveDependencies(entityIndex, sourceModuleId) : OnCycle(entityIndex, d)
      THEN ret = Return(JsNull)
      ELSE ret = Return(JsSet({sourceModuleId} \cup TransitiveDependencies(entityIndex, sourceModuleId)))

\* Analysis -> Lab -> Core (and Lab also names Ghost): the scope of Analysis
\* holds all three modules.
C12_Witness ==
  /\ ScopeDone
  /\ Declared(entityIndex, "Core") = {}
  /\ Declared(entityIndex, "Lab") = {"Core", UnknownModule}
  /\ Declared(entityIndex, "Analysis") = {"Lab"}
  /\ sourceModuleId = "Analysis"
  /\ ret = Return(JsSet({"Analysis", "Lab", "Core"}))

\* C13: for every module that participates in a dependency cycle (a
\* self-dependency included), getModuleScope returns null instead of a set,
\* never an empty set, and does not raise.
C13_NullOnCycle ==
  (ScopeDone /\ OnCycle(entityIndex, sourceModuleId)) =>
    /\ ~ret.threw
    /\ ret.value = JsNull

\* Core <-> Lab: getModuleScope(graph, 'Lab') returned null.
C13_Witness ==
  /\ ScopeDone
  /\ Declared(entityIndex, "Core") = {"Lab"}
  /\ Declared(entityIndex, "Lab") = {"Core"}
  /\ sourceModuleId = "Lab"
  /\ ret = Return(JsNull)

\* C14: buildModuleDependencyGraph returns a graph whose nodes are exactly the
\* module ids of the EntityIndex and in which the edge m -> d exists if and
\* only if m declares d in its dependencies and d is a known module; a
\* dependency naming an unknown module is dropped, without aborting the
\* construction of the other edges.
C14_GraphOfKnownDependencies ==
  GraphBuilt =>
    LET known == {entityIndex.modules[i].id : i \in DOMAIN entityIndex.modules}
    IN  /\ moduleGraph.nodes = known
        /\ DOMAIN moduleGraph.outgoingEdges = known
        /\ \A m \in known : \A d \in known \cup {UnknownModule} :
             d \in moduleGraph.outgoingEdges[m] <=>
               (d \in Declared(entityIndex, m) /\ d \in known)
        /\ \A m \in known : moduleGraph.outgoingEdges[m] \subseteq known

\* Core names Lab and the unknown Ghost, Lab names Core: the graph holds
\* Core -> Lab and Lab -> Core and nothing about Ghost.
C14_Witness ==
  /\ GraphBuilt
  /\ Declared(entityIndex, "Core") = {"Lab", UnknownModule}
  /\ Declared(entityIndex, "Lab") = {"Core"}
  /\ Declared(entityIndex, "Analysis") = {}
  /\ moduleGraph.nodes = {"Core", "Lab", "Analysis"}
  /\ moduleGraph.outgoingEdges = [Core |-> {"Lab"}, Lab |-> {"Core"}, Analysis |-> {}]

(***************************************************************************)
(* Specification of a call of buildReverseModuleIndex: Core and Lab each   *)
(* list any of the category Agent, the property Name, the subobject        *)
(* Address and the templates Page and Property/Page.                       *)
(***************************************************************************)
PropertyIds == {<<"Name">>}
SubobjectIds == {<<"Address">>}

\* The ids there are of each entity type that a module lists
EntityIds ==
  [categories |-> CategoryIds, properties |-> PropertyIds,
   subobjects |-> SubobjectIds, templates |-> TemplateIds]

\* Module entities with a given id and any lists of members
ModuleEntities(id, dependencies) ==
  {[ModuleEntity(id, dependencies, c, t) EXCEPT !.properties = p, !.subobjects = s] :
     c \in SUBSET CategoryIds, t \in SUBSET TemplateIds,
     p \in SUBSET PropertyIds, s \in SUBSET SubobjectIds}

InitReverse ==
  /\ call = "buildReverseModuleIndex"
  /\ version = NoValue
  /\ bumpType = NoValue
  /\ overrides = NoValue
  /\ pc = "buildReverseModuleIndex"
  /\ \E core \in ModuleEntities("Core", {}), lab \in ModuleEntities("Lab", {"Core"}) :
       entityIndex = [modules |-> <<core, lab>>, bundles |-> <<>>]
  /\ changes = NoValue
  /\ bumps = NoValue
  /\ moduleGraph = NoValue
  /\ moduleBumps = NoValue
  /\ bundleBumps = NoValue
  /\ ret = NoValue
  /\ sourceModuleId = NoValue

CallBuildReverseModuleIndex ==
  /\ pc = "buildReverseModuleIndex"
  /\ ret' = buildReverseModuleIndex(entityIndex)
  /\ pc' = "done"
  /\ UNCHANGED <<call, sourceModuleId, overrides, version, bumpType, entityIndex, changes, bumps, moduleGraph, moduleBumps, bundleBumps>>

NextReverse == CallBuildReverseModuleIndex

SpecReverse == InitReverse /\ [][NextReverse]_vars

ReverseDone == call = "buildReverseModuleIndex" /\ pc = "done"

\* Every id of the index, whatever its type
AnyId == CategoryIds \cup PropertyIds \cup SubobjectIds \cup TemplateIds

\* The modules that list id under type
ListingModules(index, type, id) ==
  {index.modules[i].id : i \in {j \in DOMAIN index.modules : id \in index.modules[j][type]}}

\* C15: buildReverseModuleIndex contains the key "type:id" if and only if
\* some module lists id under type, for type in {categories, properties,
\* subobjects, templates}, and the mapped value is a module that lists it; an
\* entity listed by no module is absent from the index.
C15_ReverseIndexOfListedEntities ==
  ReverseDone =>
    /\ DOMAIN ret \subseteq {Key(type, id) : type \in DOMAIN EntityIds, id \in AnyId}
    /\ \A type \in DOMAIN EntityIds : \A id \in AnyId :
         /\ Key(type, id) \in DOMAIN ret <=> ListingModules(entityIndex, type, id) # {}
         /\ Key(type, id) \in DOMAIN ret =>
              ret[Key(type, id)] \in ListingModules(entityIndex, type, id)

\* Core lists the category Agent and the template Page, Lab the property
\* Name; the template Property/Page and the subobject Address are orphans.
C15_Witness ==
  /\ ReverseDone
  /\ ListingModules(entityIndex, "templates", <<"Property", "Page">>) = {}
  /\ ListingModules(entityIndex, "subobjects", <<"Address">>) = {}
  /\ DOMAIN ret = {Key("categories", <<"Agent">>), Key("templates", <<"Page">>),
                   Key("properties", <<"Name">>)}
  /\ ret[Key("categories", <<"Agent">>)] = "Core"
  /\ ret[Key("templates", <<"Page">>)] = "Core"
  /\ ret[Key("properties", <<"Name">>)] = "Lab"

(***************************************************************************)
(* validateReferences (scripts/lib/reference-validator.js)                 *)
(*                                                                         *)
(* The value of a reference field is absent, one id, or an array of ids.   *)
(* An error is {file, type, message}; its message is held as the values    *)
(* the template string is filled with.                                     *)
(***************************************************************************)
Absent == [kind |-> "absent"]
OneId(id) == [kind |-> "string", value |-> id]
Ids(array) == [kind |-> "array", value |-> array]

\* export const REFERENCE_FIELDS = { ... }, in the order of Object.entries
REFERENCE_FIELDS ==
  << [entityType |-> "categories",
      fieldMap |-> << <<"parents", "categories">>,
                      <<"required_properties", "properties">>,
                      <<"optional_properties", "properties">>,
                      <<"required_subobjects", "subobjects">>,
                      <<"optional_subobjects", "subobjects">> >>],
     [entityType |-> "subobjects",
      fieldMap |-> << <<"required_properties", "properties">>,
                      <<"optional_properties", "properties">> >>],
     [entityType |-> "properties",
      fieldMap |-> << <<"parent_property", "properties">>,
                      <<"has_display_template", "templates">> >>],
     [entityType |-> "modules",
      fieldMap |-> << <<"categories", "categories">>,
                      <<"properties", "properties">>,
                      <<"subobjects", "subobjects">>,
                      <<"templates", "templates">>,
                      <<"dependencies", "modules">> >>],
     [entityType |-> "bundles",
      fieldMap |-> << <<"modules", "modules">> >>] >>

\* const scopeCheckTypes = new Set(['categories', 'properties', 'subobjects', 'templates'])
scopeCheckTypes == {"categories", "properties", "subobjects", "templates"}

\* An id as path segments: module and bundle ids are single names
Segments(entityType, id) == IF entityType \in {"modules", "bundles"} THEN <<id>> ELSE id

\* entity[fieldName]
FieldOf(entityType, entity, fieldName) ==
  IF fieldName \notin DOMAIN entity THEN Absent
  ELSE IF entityType = "modules" THEN Ids(ArrayOf(entity[fieldName]))
  ELSE IF entityType = "bundles"
         THEN IF entity[fieldName] = Null THEN Absent ELSE Ids(entity[fieldName])
  ELSE entity[fieldName]

\* normalizeToArray(value)
normalizeToArray(value) ==
  IF value.kind = "absent" THEN <<>>
  ELSE IF value.kind = "array" THEN value.value
  ELSE <<value.value>>

\* entityIndex[targetType].has(refId)
HasEntity(index, targetType, refId) ==
  \E i \in DOMAIN index[targetType] : index[targetType][i].id = refId

\* entity._filePath
FilePath(entityType, entityId) == FileOf(entityType, Segments(entityType, entityId))

SelfReference(file, fieldName, refId) ==
  [file |-> file, type |-> "self-reference",
   message |-> [fieldName |-> fieldName, refId |-> refId]]

MissingReference(file, fieldName, refId, targetType) ==
  [file |-> file, type |-> "missing-reference",
   message |-> [fieldName |-> fieldName, refId |-> refId, targetType |-> targetType]]

ScopeViolation(file, fieldName, refId, targetModuleId, fromModuleId) ==
  [file |-> file, type |-> "scope-violation",
   message |-> [fieldName |-> fieldName, refId |-> refId,
                targetModuleId |-> targetModuleId, sourceModuleId |-> fromModuleId]]

\* Mutation: the self-reference check is missing.
validateRef_noSelfCheck(index, reverseModuleIndex, src, fieldName, targetType, refId) ==
  LET ref == Segments(targetType, refId)
  IN  IF ~HasEntity(index, targetType, refId)
        THEN <<MissingReference(src.file, fieldName, ref, targetType)>>
      ELSE IF src.moduleScope # JsNull /\ src.entityType \in scopeCheckTypes
                /\ targetType # "modules"
        THEN IF /\ Key(targetType, ref) \in DOMAIN reverseModuleIndex
                /\ reverseModuleIndex[Key(targetType, ref)] \notin src.moduleScope.elements
               THEN <<ScopeViolation(src.file, fieldName, ref,
                                     reverseModuleIndex[Key(targetType, ref)],
                                     src.sourceModuleId)>>
               ELSE <<>>
      ELSE <<>>

\* Mutation: the existence check runs only for entities outside every module.
validateRef_existenceOfOrphans(index, reverseModuleIndex, src, fieldName, targetType, refId) ==
  LET ref == Segments(targetType, refId)
  IN  IF targetType = src.entityType /\ refId = src.entityId
        THEN <<SelfReference(src.file, fieldName, ref)>>
      ELSE IF ~HasEntity(index, targetType, refId)
        THEN IF src.sourceModuleId # NoValue
               THEN <<>>
               ELSE <<MissingReference(src.file, fieldName, ref, targetType)>>
      ELSE IF src.moduleScope # JsNull /\ src.entityType \in scopeCheckTypes
                /\ targetType # "modules"
        THEN IF /\ Key(targetType, ref) \in DOMAIN reverseModuleIndex
                /\ reverseModuleIndex[Key(targetType, ref)] \notin src.moduleScope.elements
               THEN <<ScopeViolation(src.file, fieldName, ref,
                                     reverseModuleIndex[Key(targetType, ref)],
                                     src.sourceModuleId)>>
               ELSE <<>>
      ELSE <<>>

\* Mutation: a target outside every module counts as out of scope.
validateRef_scopeOfOrphans(index, reverseModuleIndex, src, fieldName, targetType, refId) ==
  LET ref == Segments(targetType, refId)
  IN  IF targetType = src.entityType /\ refId = src.entityId
        THEN <<SelfReference(src.file, fieldName, ref)>>
      ELSE IF ~HasEntity(index, targetType, refId)
        THEN <<MissingReference(src.file, fieldName, ref, targetType)>>
      ELSE IF src.moduleScope # JsNull /\ src.entityType \in scopeCheckTypes
                /\ targetType # "modules"
        THEN IF Key(targetType, ref) \notin DOMAIN reverseModuleIndex
               THEN <<ScopeViolation(src.file, fieldName, ref, NoValue, src.sourceModuleId)>>
             ELSE IF reverseModuleIndex[Key(targetType, ref)] \notin src.moduleScope.elements
               THEN <<ScopeViolation(src.file, fieldName, ref,
                                     reverseModuleIndex[Key(targetType, ref)],
                                     src.sourceModuleId)>>
               ELSE <<>>
      ELSE <<>>

\* What the checks of one refId push onto errors.  src is the entity under
\* validation: [entityType, entityId, file, sourceModuleId, moduleScope]
validateRef(index, reverseModuleIndex, src, fieldName, targetType, refId) ==
  LET ref == Segments(targetType, refId)
  IN  IF targetType = src.entityType /\ refId = src.entityId
        THEN <<SelfReference(src.file, fieldName, ref)>>            \* continue
      ELSE IF ~HasEntity(index, targetType, refId)
        THEN <<MissingReference(src.file, fieldName, ref, targetType)>>  \* continue
      ELSE IF src.moduleScope # JsNull /\ src.entityType \in scopeCheckTypes
                /\ targetType # "modules"
        THEN LET targetKey == Key(targetType, ref)
             IN  IF /\ targetKey \in DOMAIN reverseModuleIndex
                    /\ reverseModuleIndex[targetKey] \notin src.moduleScope.elements
                   THEN <<ScopeViolation(src.file, fieldName, ref,
                                         reverseModuleIndex[targetKey], src.sourceModuleId)>>
                   ELSE <<>>
      ELSE <<>>

RECURSIVE refsLoop(_, _, _, _, _, _, _)
\* for (const refId of refs) { ... }
refsLoop(index, reverseModuleIndex, src, fieldName, targetType, refs, k) ==
  IF k > Len(refs) THEN <<>>
  ELSE validateRef(index, reverseModuleIndex, src, fieldName, targetType, refs[k])
         \o refsLoop(index, reverseModuleIndex, src, fieldName, targetType, refs, k + 1)

RECURSIVE fieldsLoop(_, _, _, _, _, _)
\* for (const [fieldName, targetType] of Object.entries(fieldMap)) { ... }
fieldsLoop(index, reverseModuleIndex, src, entity, fieldMap, f) ==
  IF f > Len(fieldMap) THEN <<>>
  ELSE LET fieldName == fieldMap[f][1]
           targetType == fieldMap[f][2]
           refs == normalizeToArray(FieldOf(src.entityType, entity, fieldName))
       IN  refsLoop(index, reverseModuleIndex, src, fieldName, targetType, refs, 1)
             \o fieldsLoop(index, reverseModuleIndex, src, entity, fieldMap, f + 1)

\* The outcome of getModuleScope for the entity, or null when it is not called
ScopeOutcome(graph, reverseModuleIndex, entityType, entityId) ==
  LET entityKey == Key(entityType, Segments(entityType, entityId))
  IN  IF entityKey \in DOMAIN reverseModuleIndex /\ entityType \in scopeCheckTypes
        THEN getModuleScope(graph, reverseModuleIndex[entityKey])
        ELSE Return(JsNull)

\* The entity under validation, with its source module and module scope
Source(graph, reverseModuleIndex, entityType, entityId) ==
  LET entityKey == Key(entityType, Segments(entityType, entityId))
  IN  [entityType |-> entityType,
       entityId |-> entityId,
       file |-> FilePath(entityType, entityId),
       sourceModuleId |-> IF entityKey \in DOMAIN reverseModuleIndex
                            THEN reverseModuleIndex[entityKey] ELSE NoValue,
       moduleScope |-> ScopeOutcome(graph, reverseModuleIndex, entityType, entityId).value]

RECURSIVE entitiesLoop(_, _, _, _, _, _)
\* for (const [entityId, entity] of entities) { ... }
entitiesLoop(index, graph, reverseModuleIndex, entityType, fieldMap, i) ==
  IF i > Len(index[entityType]) THEN <<>>
  ELSE LET entity == index[entityType][i]
           src == Source(graph, reverseModuleIndex, entityType, entity.id)
       IN  fieldsLoop(index, reverseModuleIndex, src, entity, fieldMap, 1)
             \o entitiesLoop(index, graph, reverseModuleIndex, entityType, fieldMap, i + 1)

RECURSIVE typesLoop(_, _, _, _)
\* for (const [entityType, fieldMap] of Object.entries(REFERENCE_FIELDS)) { ... }
typesLoop(index, graph, reverseModuleIndex, t) ==
  IF t > Len(REFERENCE_FIELDS) THEN <<>>
  ELSE entitiesLoop(index, graph, reverseModuleIndex,
                    REFERENCE_FIELDS[t].entityType, REFERENCE_FIELDS[t].fieldMap, 1)
         \o typesLoop(index, graph, reverseModuleIndex, t + 1)

\* The getModuleScope calls of validateReferences that throw
ScopeThrows(index, graph, reverseModuleIndex) ==
  {outcome \in UNION {{ScopeOutcome(graph, reverseModuleIndex, REFERENCE_FIELDS[t].entityType,
                                    index[REFERENCE_FIELDS[t].entityType][i].id) :
                         i \in DOMAIN index[REFERENCE_FIELDS[t].entityType]}
                       : t \in DOMAIN REFERENCE_FIELDS}
     : outcome.threw}

\* Mutation: validation stops at the first error (fail-fast).
validateReferences_failFast(index) ==
  LET graph == buildModuleDependencyGraph(index)
      reverseModuleIndex == buildReverseModuleIndex(index)
      errors == typesLoop(index, graph, reverseModuleIndex, 1)
  IN  Return([errors |-> SubSeq(errors, 1, IF Len(errors) > 0 THEN 1 ELSE 0),
              warnings |-> <<>>])

\* The outcome of validateReferences(entityIndex)
validateReferences(index) ==
  LET moduleGraphOf == buildModuleDependencyGraph(index)
      reverseModuleIndex == buildReverseModuleIndex(index)
      thrown == ScopeThrows(index, moduleGraphOf, reverseModuleIndex)
  IN  IF thrown # {}
        THEN CHOOSE outcome \in thrown : TRUE
        ELSE Return([errors |-> typesLoop(index, moduleGraphOf, reverseModuleIndex, 1),
                     warnings |-> <<>>])

(***************************************************************************)
(* Specification of a call of validateReferences.  The index holds the     *)
(* categories Agent and Person, the property Name, the subobject Address,  *)
(* the template Page, the modules Core, Lab and Analysis and the bundle    *)
(* Default.  Person belongs to Core; Agent and Name belong to any module   *)
(* or to none, Page to Lab or to none, Address to none.                    *)
(***************************************************************************)
MaxRefs == 2       \* most ids in the required_properties of Agent

Owners == ModuleNames \cup {NoValue}

\* The ids of ids that module m owns under the owner function own
Owned(own, ids, m) == {id \in ids : own[id] = m}

CategoryEntity(id, parents, required_properties) ==
  [id |-> id, parents |-> parents, required_properties |-> required_properties,
   optional_subobjects |-> OneId(<<"Address">>)]

PropertyEntity(id, parent_property, has_display_template) ==
  [id |-> id, parent_property |-> parent_property,
   has_display_template |-> has_display_template]

\* A module entity that lists what it owns
OwningModule(id, dependencies, own) ==
  [ModuleEntity(id, dependencies,
                Owned(own, {<<"Agent">>, <<"Person">>}, id),
                Owned(own, {<<"Page">>}, id))
     EXCEPT !.properties = Owned(own, {<<"Name">>}, id)]

InitValidate ==
  /\ call = "validateReferences"
  /\ version = NoValue
  /\ bumpType = NoValue
  /\ overrides = NoValue
  /\ pc = "validateReferences"
  /\ \E agentOwner, nameOwner \in Owners, pageOwner \in {"Lab", NoValue} :
     \E parents \in {Absent, Ids(<<<<"Person">>>>), Ids(<<<<"Agent">>, <<"Person">>>>)} :
     \E required \in SeqUpTo({<<"Name">>, <<"Ghost">>}, MaxRefs) :
     \E parent \in {Absent, OneId(<<"Name">>), OneId(<<"Ghost">>)} :
     \E core \in SUBSET {"Lab"}, lab \in SUBSET {"Core"}, analysis \in SUBSET {"Lab", "Analysis"} :
     \E bundled \in {<<"Core">>, <<"Core", UnknownModule>>} :
       LET own == (<<"Agent">> :> agentOwner) @@ (<<"Person">> :> "Core")
                    @@ (<<"Name">> :> nameOwner) @@ (<<"Page">> :> pageOwner)
       IN  entityIndex =
             [categories |-> <<CategoryEntity(<<"Agent">>, parents, Ids(required)),
                               CategoryEntity(<<"Person">>, Absent, Absent)>>,
              properties |-> <<PropertyEntity(<<"Name">>, parent, OneId(<<"Page">>))>>,
              subobjects |-> <<[id |-> <<"Address">>,
                                required_properties |-> Ids(<<<<"Name">>>>)]>>,
              templates |-> <<[id |-> <<"Page">>]>>,
              modules |-> <<OwningModule("Core", core, own),
                            OwningModule("Lab", lab, own),
                            OwningModule("Analysis", analysis, own)>>,
              bundles |-> <<BundleEntity("Default", bundled)>>]
  /\ changes = NoValue
  /\ bumps = NoValue
  /\ moduleGraph = NoValue
  /\ moduleBumps = NoValue
  /\ bundleBumps = NoValue
  /\ ret = NoValue
  /\ sourceModuleId = NoValue

CallValidateReferences ==
  /\ pc = "validateReferences"
  /\ ret' = validateReferences(entityIndex)
  /\ pc' = "done"
  /\ UNCHANGED <<call, sourceModuleId, overrides, version, bumpType, entityIndex, changes, bumps, moduleGraph, moduleBumps, bundleBumps>>

NextValidate == CallValidateReferences

SpecValidate == InitValidate /\ [][NextValidate]_vars

ValidateDone == call = "validateReferences" /\ pc = "done"

\* The reference occurrences of the index: entity i of a type, a reference
\* field of the type, position k in the field's normalized value
Occurrences(index) ==
  UNION {UNION {UNION {
    {[entityType |-> REFERENCE_FIELDS[t].entityType,
      entityId |-> index[REFERENCE_FIELDS[t].entityType][i].id,
      fieldName |-> REFERENCE_FIELDS[t].fieldMap[f][1],
      targetType |-> REFERENCE_FIELDS[t].fieldMap[f][2],
      k |-> k,
      refId |-> normalizeToArray(FieldOf(REFERENCE_FIELDS[t].entityType,
                                         index[REFERENCE_FIELDS[t].entityType][i],
                                         REFERENCE_FIELDS[t].fieldMap[f][1]))[k]]
     : k \in DOMAIN normalizeToArray(FieldOf(REFERENCE_FIELDS[t].entityType,
                                             index[REFERENCE_FIELDS[t].entityType][i],
                                             REFERENCE_FIELDS[t].fieldMap[f][1]))}
    : f \in DOMAIN REFERENCE_FIELDS[t].fieldMap}
    : i \in DOMAIN index[REFERENCE_FIELDS[t].entityType]}
    : t \in DOMAIN REFERENCE_FIELDS}

\* The occurrences of the same id in the same field of the same entity
Twins(occurrences, o) ==
  {x \in occurrences :
     /\ x.entityType = o.entityType /\ x.fieldName = o.fieldName
     /\ x.entityId = o.entityId /\ x.refId = o.refId}

\* The positions in errors of the errors of one type about occurrence o
ErrorsAbout(errors, o, type) ==
  {j \in DOMAIN errors :
     /\ errors[j].type = type
     /\ errors[j].file = FileOf(o.entityType, Segments(o.entityType, o.entityId))
     /\ errors[j].message.fieldName = o.fieldName
     /\ errors[j].message.refId = Segments(o.targetType, o.refId)}

IsSelfReference(o) == o.targetType = o.entityType /\ o.refId = o.entityId

TargetExists(index, o) == \E i \in DOMAIN index[o.targetType] : index[o.targetType][i].id = o.refId

IsMissing(index, o) == ~IsSelfReference(o) /\ ~TargetExists(index, o)

\* The modules that list the entity (none for a module or a bundle)
OwningModules(index, type, id) ==
  IF type \in {"categories", "properties", "subobjects", "templates"}
    THEN ListingModules(index, type, id) ELSE {}

\* The scope of module m is determinate: its resolution meets no cycle
Determinate(index, m) ==
  /\ ~OnCycle(index, m)
  /\ \A d \in TransitiveDependencies(index, m) : ~OnCycle(index, d)

\* The two modules a scope violation of occurrence o names, if it is one
Violations(index, o) ==
  IF /\ ~IsSelfReference(o) /\ TargetExists(index, o)
     /\ o.entityType \in {"categories", "properties", "subobjects", "templates"}
     /\ o.targetType # "modules"
    THEN {<<m, tm>> \in OwningModules(index, o.entityType, o.entityId)
                          \X OwningModules(index, o.targetType, o.refId) :
            /\ Determinate(index, m)
            /\ tm \notin {m} \cup TransitiveDependencies(index, m)}
    ELSE {}

\* C16: every reference occurrence whose target id equals the referencing
\* entity's own id and whose target type equals the entity's own type
\* produces exactly one error of type self-reference and no
\* missing-reference or scope-violation error for that occurrence.
C16_SelfReference ==
  ValidateDone =>
    /\ ~ret.threw
    /\ LET occurrences == Occurrences(entityIndex)
       IN  \A o \in occurrences :
         IsSelfReference(o) =>
           /\ Cardinality(ErrorsAbout(ret.value.errors, o, "self-reference"))
                = Cardinality(Twins(occurrences, o))
           /\ ErrorsAbout(ret.value.errors, o, "missing-reference") = {}
           /\ ErrorsAbout(ret.value.errors, o, "scope-violation") = {}

\* Agent names itself and Person as parents, Name names itself as parent
\* property and Analysis depends on itself: three self-reference errors.
C16_Witness ==
  /\ ValidateDone
  /\ entityIndex.categories[1].parents = Ids(<<<<"Agent">>, <<"Person">>>>)
  /\ entityIndex.properties[1].parent_property = OneId(<<"Name">>)
  /\ "Analysis" \in entityIndex.modules[3].dependencies
  /\ Cardinality({j \in DOMAIN ret.value.errors :
                    ret.value.errors[j].type = "self-reference"}) = 3

\* C17: every reference occurrence that is not a self-reference and whose
\* target id is absent from the index of the field's target type produces
\* exactly one error of type missing-reference and no scope-violation error,
\* whatever the module membership of the source entity.
C17_MissingReference ==
  ValidateDone =>
    /\ ~ret.threw
    /\ LET occurrences == Occurrences(entityIndex)
       IN  \A o \in occurrences :
         IsMissing(entityIndex, o) =>
           /\ Cardinality(ErrorsAbout(ret.value.errors, o, "missing-reference"))
                = Cardinality(Twins(occurrences, o))
           /\ ErrorsAbout(ret.value.errors, o, "scope-violation") = {}

\* Agent of module Core requires the property Ghost, which exists nowhere:
\* one missing-reference error and no other error.
C17_Witness ==
  /\ ValidateDone
  /\ ListingModules(entityIndex, "categories", <<"Agent">>) = {"Core"}
  /\ entityIndex.categories[1].required_properties = Ids(<<<<"Ghost">>>>)
  /\ ret.value.errors =
       <<MissingReference(<<"categories", "Agent">>, "required_properties",
                          <<"Ghost">>, "properties")>>

\* C18: validateReferences emits a scope-violation error for a reference
\* occurrence if and only if the reference is not a self-reference and its
\* target exists, the source entity is a category, property, subobject or
\* template, the target type is not modules, the source entity has an owning
\* module whose scope is determinate, the target has an owning module, and
\* the target's module is not in the source module's scope.
C18_ScopeViolation ==
  ValidateDone =>
    /\ ~ret.threw
    /\ LET occurrences == Occurrences(entityIndex)
       IN  \A o \in occurrences :
         LET found == ErrorsAbout(ret.value.errors, o, "scope-violation")
             named == Violations(entityIndex, o)
         IN  /\ Cardinality(found) =
                  (IF named # {} THEN Cardinality(Twins(occurrences, o)) ELSE 0)
             /\ \A j \in found :
                  <<ret.value.errors[j].message.sourceModuleId,
                    ret.value.errors[j].message.targetModuleId>> \in named

\* Agent of Core requires Name of Lab and Core does not depend on Lab: one
\* scope-violation error that names Lab and Core.
C18_Witness ==
  /\ ValidateDone
  /\ ListingModules(entityIndex, "categories", <<"Agent">>) = {"Core"}
  /\ ListingModules(entityIndex, "properties", <<"Name">>) = {"Lab"}
  /\ entityIndex.modules[1].dependencies = {}
  /\ entityIndex.categories[1].required_properties = Ids(<<<<"Name">>>>)
  /\ ret.value.errors =
       <<ScopeViolation(<<"categories", "Agent">>, "required_properties",
                        <<"Name">>, "Lab", "Core")>>

\* Agent of Analysis requires Name of Core, Analysis -> Lab -> Core: the
\* reference into a transitively depended-on module yields no error.
C18_TransitiveInScope ==
  /\ ValidateDone
  /\ ListingModules(entityIndex, "categories", <<"Agent">>) = {"Analysis"}
  /\ ListingModules(entityIndex, "properties", <<"Name">>) = {"Core"}
  /\ entityIndex.modules[1].dependencies = {}
  /\ entityIndex.modules[2].dependencies = {"Core"}
  /\ entityIndex.modules[3].dependencies = {"Lab"}
  /\ entityIndex.categories[1].required_properties = Ids(<<<<"Name">>>>)
  /\ ret.value.errors = <<>>

\* o is a failing reference occurrence
Failing(index, o) ==
  IsSelfReference(o) \/ IsMissing(index, o) \/ Violations(index, o) # {}

\* C19: validateReferences has batch semantics: it examines every reference
\* occurrence of every entity of every type in the reference-field table
\* regardless of how many errors were found before, so the returned error
\* list contains one error for each failing reference occurrence (at most
\* one per occurrence) and validation never stops or raises at the first
\* error.
C19_BatchSemantics ==
  ValidateDone =>
    /\ ~ret.threw
    /\ Len(ret.value.errors)
         = Cardinality({o \in Occurrences(entityIndex) : Failing(entityIndex, o)})
    /\ LET occurrences == Occurrences(entityIndex)
       IN  \A o \in occurrences :
         Cardinality(ErrorsAbout(ret.value.errors, o, "self-reference")
                       \cup ErrorsAbout(ret.value.errors, o, "missing-reference")
                       \cup ErrorsAbout(ret.value.errors, o, "scope-violation"))
           = (IF Failing(entityIndex, o) THEN Cardinality(Twins(occurrences, o)) ELSE 0)

\* Four failing occurrences in three entity types and in the bundle: a
\* self-reference and a scope violation in Agent, a missing parent property
\* in Name and a missing module in Default, all four in the returned list.
C19_Witness ==
  /\ ValidateDone
  /\ Len(ret.value.errors) = 4
  /\ ret.value.errors[1].type = "self-reference"
  /\ ret.value.errors[1].file = <<"categories", "Agent">>
  /\ ret.value.errors[2].type = "scope-violation"
  /\ ret.value.errors[3].type = "missing-reference"
  /\ ret.value.errors[3].file = <<"properties", "Name">>
  /\ ret.value.errors[4].type = "missing-reference"
  /\ ret.value.errors[4].file = <<"bundles", "Default">>

(***************************************************************************)
(* applyOverrides (scripts/lib/version-overrides.js, described in the      *)
(* specification of the version cascade engine): overrides always win      *)
(* verbatim; an override lower than the calculated bump is applied with a  *)
(* warning that names the module, the calculated bump and the override.    *)
(***************************************************************************)
\* The warning "... downgrades <moduleId> from <calculated> to <override>"
DowngradeWarning(id, calculated, override) ==
  [moduleId |-> id, from |-> calculated, to |-> override]

\* Mutation: an override lower than the calculated bump is not applied.
overrideStep_neverDowngrade(acc, id, override) ==
  IF id \in DOMAIN acc.bumps /\ Priority(override) < Priority(acc.bumps[id])
    THEN [bumps |-> acc.bumps,
          warnings |-> Append(acc.warnings, DowngradeWarning(id, acc.bumps[id], override))]
    ELSE [bumps |-> MapSet(acc.bumps, id, override), warnings |-> acc.warnings]

\* Mutation: the comparison is not strict, so an override equal to the
\* calculated bump warns as well.
overrideStep_warnOnEqual(acc, id, override) ==
  [bumps |-> MapSet(acc.bumps, id, override),
   warnings |->
     IF id \in DOMAIN acc.bumps /\ Priority(override) <= Priority(acc.bumps[id])
       THEN Append(acc.warnings, DowngradeWarning(id, acc.bumps[id], override))
       ELSE acc.warnings]

\* One override applied to the bumps and warnings so far
overrideStep(acc, id, override) ==
  [bumps |-> MapSet(acc.bumps, id, override),
   warnings |->
     IF id \in DOMAIN acc.bumps /\ Priority(override) < Priority(acc.bumps[id])
       THEN Append(acc.warnings, DowngradeWarning(id, acc.bumps[id], override))
       ELSE acc.warnings]

RECURSIVE overridesLoop(_, _, _, _)
\* Every entry of the override table, one after the other
overridesLoop(table, ids, i, acc) ==
  IF i > Len(ids) THEN acc
  ELSE overridesLoop(table, ids, i + 1, overrideStep(acc, ids[i], table[ids[i]]))

\* applyOverrides(calculatedBumps, overrides): { bumps, warnings }
applyOverrides(calculatedBumps, table) ==
  overridesLoop(table, ArrayOf(DOMAIN table), 1,
                [bumps |-> calculatedBumps, warnings |-> <<>>])

(***************************************************************************)
(* Specification of a call of applyOverrides                               *)
(***************************************************************************)
InitOverrides ==
  /\ call = "applyOverrides"
  /\ version = NoValue
  /\ bumpType = NoValue
  /\ pc = "applyOverrides"
  /\ moduleBumps \in BumpMaps(ModuleNames)
  /\ overrides \in BumpMaps(ModuleNames)
  /\ entityIndex = NoValue
  /\ changes = NoValue
  /\ bumps = NoValue
  /\ moduleGraph = NoValue
  /\ bundleBumps = NoValue
  /\ ret = NoValue
  /\ sourceModuleId = NoValue

CallApplyOverrides ==
  /\ pc = "applyOverrides"
  /\ ret' = applyOverrides(moduleBumps, overrides)
  /\ pc' = "done"
  /\ UNCHANGED <<call, sourceModuleId, overrides, version, bumpType, entityIndex, changes, bumps, moduleGraph, moduleBumps, bundleBumps>>

NextOverrides == CallApplyOverrides

SpecOverrides == InitOverrides /\ [][NextOverrides]_vars

OverridesDone == call = "applyOverrides" /\ pc = "done"

\* C20: applyOverrides returns bumps in which every module named in
\* overrides has exactly the override's bump level, whether that is higher,
\* equal or lower than the calculated one and whether or not the module had
\* a calculated bump, and every module not named in overrides keeps its
\* calculated bump; with empty overrides the bumps are unchanged.
C20_OverridesWinVerbatim ==
  OverridesDone =>
    /\ DOMAIN ret.bumps = DOMAIN moduleBumps \cup DOMAIN overrides
    /\ \A m \in DOMAIN overrides : ret.bumps[m] = overrides[m]
    /\ \A m \in DOMAIN moduleBumps \ DOMAIN overrides : ret.bumps[m] = moduleBumps[m]
    /\ overrides = EmptyMap => ret.bumps = moduleBumps

\* Core is overridden downwards, Analysis had no calculated bump, Lab is not
\* named: Core and Analysis carry the overrides and Lab keeps its bump.
C20_Witness ==
  /\ OverridesDone
  /\ moduleBumps = [Core |-> "major", Lab |-> "minor"]
  /\ overrides = [Core |-> "minor", Analysis |-> "patch"]
  /\ ret.bumps = [Core |-> "minor", Lab |-> "minor", Analysis |-> "patch"]

\* The overrides that are strictly lower than the bump calculated for their
\* module
Downgrades(calculated, table) ==
  {m \in DOMAIN table \cap DOMAIN calculated :
     BUMP_PRIORITY[table[m]] < BUMP_PRIORITY[calculated[m]]}

\* C21: applyOverrides emits exactly one warning for each override whose
\* priority is strictly lower than the bump calculated for that module, the
\* warning naming the module, the calculated bump and the override bump, and
\* emits no warning for an override that is equal or higher, or for a module
\* that had no calculated bump.
C21_WarningsForDowngrades ==
  OverridesDone =>
    /\ Len(ret.warnings) = Cardinality(Downgrades(moduleBumps, overrides))
    /\ \A m \in ModuleNames :
         LET about == {j \in DOMAIN ret.warnings : ret.warnings[j].moduleId = m}
         IN  IF m \in Downgrades(moduleBumps, overrides)
               THEN /\ Cardinality(about) = 1
                    /\ \A j \in about :
                         /\ ret.warnings[j].from = moduleBumps[m]
                         /\ ret.warnings[j].to = overrides[m]
               ELSE about = {}

\* Core is overridden from major down to minor, Lab from minor to the same
\* minor, Analysis had no calculated bump: the one warning is about Core.
C21_Witness ==
  /\ OverridesDone
  /\ moduleBumps = [Core |-> "major", Lab |-> "minor"]
  /\ overrides = [Core |-> "minor", Lab |-> "minor", Analysis |-> "patch"]
  /\ ret.warnings = <<DowngradeWarning("Core", "major", "minor")>>

(***************************************************************************)
(* calculateNewVersion (described in the specification of the version      *)
(* cascade engine).  A version string is the sequence of its characters.   *)
(***************************************************************************)
MaxVersionLen == 5   \* longest version string

Digits == <<"0", "1", "2", "3", "4", "5", "6", "7", "8", "9">>

IsDigit(c) == \E d \in DOMAIN Digits : Digits[d] = c

DigitValue(c) == (CHOOSE d \in DOMAIN Digits : Digits[d] = c) - 1

RECURSIVE SplitAt(_, _, _, _)
\* version.split('.'): the pieces between the dots, from character i on
SplitAt(text, i, piece, pieces) ==
  IF i > Len(text) THEN Append(pieces, piece)
  ELSE IF text[i] = "." THEN SplitAt(text, i + 1, <<>>, Append(pieces, piece))
  ELSE SplitAt(text, i + 1, Append(piece, text[i]), pieces)

Split(text) == SplitAt(text, 1, <<>>, <<>>)

\* The piece is a non-negative integer: one or more digits
IsInteger(piece) == Len(piece) > 0 /\ \A i \in DOMAIN piece : IsDigit(piece[i])

RECURSIVE ParseFrom(_, _, _)
\* The number a string of digits stands for, read from the left
ParseFrom(piece, i, n) ==
  IF i > Len(piece) THEN n ELSE ParseFrom(piece, i + 1, 10 * n + DigitValue(piece[i]))

ParseInteger(piece) == ParseFrom(piece, 1, 0)

RECURSIVE FormatInteger(_)
\* The decimal digits of a number
FormatInteger(n) ==
  IF n < 10 THEN <<Digits[n + 1]>>
  ELSE Append(FormatInteger(n \div 10), Digits[(n % 10) + 1])

\* `${major}.${minor}.${patch}`
FormatVersion(major, minor, patch) ==
  FormatInteger(major) \o <<".">> \o FormatInteger(minor) \o <<".">> \o FormatInteger(patch)

\* Mutation: a minor bump leaves the patch component as it was.
calculateNewVersion_minorKeepsPatch(versionText, bump) ==
  IF versionText = Null \/ bump \notin BumpType THEN Null
  ELSE LET parts == Split(versionText)
       IN  IF Len(parts) # 3 \/ \E i \in DOMAIN parts : ~IsInteger(parts[i]) THEN Null
           ELSE LET major == ParseInteger(parts[1])
                    minor == ParseInteger(parts[2])
                    patch == ParseInteger(parts[3])
                IN  IF bump = "major" THEN FormatVersion(major + 1, 0, 0)
                    ELSE IF bump = "minor" THEN FormatVersion(major, minor + 1, patch)
                    ELSE FormatVersion(major, minor, patch + 1)

\* calculateNewVersion(version, bumpType): the new version string, or null
calculateNewVersion(versionText, bump) ==
  IF versionText = Null \/ bump \notin BumpType THEN Null
  ELSE LET parts == Split(versionText)
       IN  IF Len(parts) # 3 \/ \E i \in DOMAIN parts : ~IsInteger(parts[i]) THEN Null
           ELSE LET major == ParseInteger(parts[1])
                    minor == ParseInteger(parts[2])
                    patch == ParseInteger(parts[3])
                IN  IF bump = "major" THEN FormatVersion(major + 1, 0, 0)
                    ELSE IF bump = "minor" THEN FormatVersion(major, minor + 1, 0)
                    ELSE FormatVersion(major, minor, patch + 1)

(***************************************************************************)
(* Specification of a call of calculateNewVersion: any string of at most   *)
(* MaxVersionLen of the characters 0, 1, 9, "." and x, or no version; a    *)
(* bump type, the unrecognized 'invalid', or none.                         *)
(***************************************************************************)
VersionChars == {"0", "1", "9", ".", "x"}

InitNewVersion ==
  /\ call = "calculateNewVersion"
  /\ pc = "calculateNewVersion"
  /\ version \in SeqUpTo(VersionChars, MaxVersionLen) \cup {Null}
  /\ bumpType \in BumpType \cup {"invalid", NoValue}
  /\ entityIndex = NoValue
  /\ changes = NoValue
  /\ bumps = NoValue
  /\ moduleGraph = NoValue
  /\ moduleBumps = NoValue
  /\ bundleBumps = NoValue
  /\ ret = NoValue
  /\ sourceModuleId = NoValue
  /\ overrides = NoValue

CallCalculateNewVersion ==
  /\ pc = "calculateNewVersion"
  /\ ret' = calculateNewVersion(version, bumpType)
  /\ pc' = "done"
  /\ UNCHANGED <<call, sourceModuleId, overrides, version, bumpType, entityIndex, changes, bumps, moduleGraph, moduleBumps, bundleBumps>>

NextNewVersion == CallCalculateNewVersion

SpecNewVersion == InitNewVersion /\ [][NextNewVersion]_vars

NewVersionDone == call = "calculateNewVersion" /\ pc = "done"

\* The positions of the dots of a string
Dots(text) == {i \in DOMAIN text : text[i] = "."}

\* The three components of a string with two dots
Component(text, n) ==
  LET first == CHOOSE i \in Dots(text) : \A j \in Dots(text) : i <= j
      second == CHOOSE i \in Dots(text) : \A j \in Dots(text) : j <= i
  IN  IF n = 1 THEN SubSeq(text, 1, first - 1)
      ELSE IF n = 2 THEN SubSeq(text, first + 1, second - 1)
      ELSE SubSeq(text, second + 1, Len(text))

\* text is three dot-separated non-negative integers
IsThreeIntegers(text) ==
  /\ Cardinality(Dots(text)) = 2
  /\ \A n \in 1..3 :
       /\ Component(text, n) # <<>>
       /\ \A i \in DOMAIN Component(text, n) : Component(text, n)[i] \in Range(Digits)

RECURSIVE Decimal(_)
\* The number a string of digits stands for, by its last digit
Decimal(piece) ==
  IF piece = <<>> THEN 0
  ELSE 10 * Decimal(SubSeq(piece, 1, Len(piece) - 1))
         + (CHOOSE v \in 0..9 : Digits[v + 1] = piece[Len(piece)])

\* text is a.b.c for the numbers a, b, c, each written without leading zero
Denotes(text, a, b, c) ==
  /\ IsThreeIntegers(text)
  /\ Decimal(Component(text, 1)) = a
  /\ Decimal(Component(text, 2)) = b
  /\ Decimal(Component(text, 3)) = c
  /\ \A n \in 1..3 : Len(Component(text, n)) = 1 \/ Component(text, n)[1] # "0"

\* C22: calculateNewVersion(version, bumpType) for a version of three
\* dot-separated non-negative integers a.b.c returns (a+1).0.0 for major,
\* a.(b+1).0 for minor and a.b.(c+1) for patch, and returns null without
\* throwing when the version does not parse or is missing, or when bumpType
\* is missing or unrecognized.
C22_SemverArithmetic ==
  NewVersionDone =>
    IF version # Null /\ IsThreeIntegers(version) /\ bumpType \in BumpType
      THEN LET a == Decimal(Component(version, 1))
               b == Decimal(Component(version, 2))
               c == Decimal(Component(version, 3))
           IN  /\ ret # Null
               /\ bumpType = "major" => Denotes(ret, a + 1, 0, 0)
               /\ bumpType = "minor" => Denotes(ret, a, b + 1, 0)
               /\ bumpType = "patch" => Denotes(ret, a, b, c + 1)
      ELSE ret = Null

\* 1.9.1 with a minor bump gave 1.10.0.
C22_Witness ==
  /\ NewVersionDone
  /\ version = <<"1", ".", "9", ".", "1">>
  /\ bumpType = "minor"
  /\ ret = <<"1", ".", "1", "0", ".", "0">>

\* 1.x.1 does not parse, and the call returned null.
C22_NullForInvalid ==
  /\ NewVersionDone
  /\ version = <<"1", ".", "x", ".", "1">>
  /\ bumpType = "patch"
  /\ ret = Null

\* C23: for every change record whose file is "<entityType>/<id>.json",
\* calculateModuleBumps and the orphan extraction of calculateVersionCascade
\* look up the owning module under the key "<entityType>:<id>" of that same
\* id, nested ids such as Property/Page included; so a change to an entity
\* owned by module M always raises M's bump to at least the change's
\* changeType and is not reported as an orphan.
C23_LookupByEntityId ==
  VersionDone =>
    /\ ~ret.threw
    /\ \A i \in DOMAIN Detected :
         /\ ChangeKey(Detected[i]) = ChangedEntity(Detected[i])
         /\ HasOwner(entityIndex, Detected[i]) =>
              /\ OwnerOf(entityIndex, Detected[i]) \in DOMAIN ret.value.moduleBumps
              /\ AtLeast(ret.value.moduleBumps[OwnerOf(entityIndex, Detected[i])],
                         Detected[i].changeType)
              /\ Detected[i] \notin Range(ret.value.orphanChanges)

\* The same for the changes of entities whose id holds no path separator
C23_FlatIds ==
  VersionDone =>
    /\ ~ret.threw
    /\ \A i \in DOMAIN Detected :
         Len(Detected[i].file) = 2 =>
           /\ ChangeKey(Detected[i]) = ChangedEntity(Detected[i])
           /\ (HasOwner(entityIndex, Detected[i])
                 /\ \A j \in DOMAIN Detected : Len(Detected[j].file) = 2) =>
                /\ OwnerOf(entityIndex, Detected[i]) \in DOMAIN ret.value.moduleBumps
                /\ AtLeast(ret.value.moduleBumps[OwnerOf(entityIndex, Detected[i])],
                           Detected[i].changeType)
                /\ Detected[i] \notin Range(ret.value.orphanChanges)

(***************************************************************************)
(* The cascade over direct dependencies and the closure of the input       *)
(***************************************************************************)
RECURSIVE DirectCascade(_, _, _, _)
\* The cascade as described: the modules are taken dependencies-first and
\* each combines its own bump with the already cascaded bumps of its direct
\* dependencies only.
DirectCascade(graph, order, i, cascaded) ==
  IF i > Len(order) THEN cascaded
  ELSE LET m == order[i]
           direct == {d \in graph.outgoingEdges[m] : d \in DOMAIN cascaded}
           own == IF m \in DOMAIN cascaded THEN {cascaded[m]} ELSE {}
           all == own \cup {cascaded[d] : d \in direct}
       IN  DirectCascade(graph, order, i + 1,
                         IF direct = {} THEN cascaded
                         ELSE MapSet(cascaded, m, CHOOSE b \in all : HighestOf(b, all)))

\* C24: on every acyclic module graph the cascade over the already cascaded
\* bumps of the direct dependencies, taken dependencies-first, and the
\* cascade of the code over all transitive dependencies give the same
\* result map for every input moduleBumps.
C24_DirectEqualsTransitive ==
  (CascadeDone /\ ~HasCycle(moduleGraph)) =>
    /\ ~ret.threw
    /\ \A order \in TopologicalOrders(moduleGraph) :
         ret.value = DirectCascade(moduleGraph, order, 1, moduleBumps)

\* Analysis -> Lab -> Core, Lab without a bump of its own: Analysis gets
\* Core's major through Lab in the direct cascade and from Core itself in
\* the code.
C24_Witness ==
  /\ CascadeDone
  /\ moduleGraph.outgoingEdges = [Core |-> {}, Lab |-> {"Core"}, Analysis |-> {"Lab"}]
  /\ moduleBumps = [Core |-> "major", Analysis |-> "patch"]
  /\ ~ret.threw
  /\ ret.value = [Core |-> "major", Lab |-> "major", Analysis |-> "major"]
  /\ ret.value = DirectCascade(moduleGraph, <<"Core", "Lab", "Analysis">>, 1, moduleBumps)

\* m and its transitive dependencies that have a bump in the input
BumpedClosure(graph, bumpsIn, m) ==
  ({m} \cup Reachable(graph, m)) \cap DOMAIN bumpsIn

\* C25: on every acyclic module graph the result is the closure of the
\* input: a module is a key of the result exactly if it or one of its
\* transitive dependencies has a bump in the input, and its value is then
\* the maximum of these input bumps; a module with no bump of its own and no
\* bumped dependency is absent.
C25_ClosureOfInput ==
  (CascadeDone /\ ~HasCycle(moduleGraph)) =>
    /\ ~ret.threw
    /\ DOMAIN ret.value \subseteq moduleGraph.nodes
    /\ \A m \in moduleGraph.nodes :
         LET bumped == BumpedClosure(moduleGraph, moduleBumps, m)
         IN  /\ m \in DOMAIN ret.value <=> bumped # {}
             /\ bumped # {} =>
                  HighestOf(ret.value[m], {moduleBumps[d] : d \in bumped})

\* Lab -> Core, Analysis on its own: Lab (patch) takes Core's minor, while
\* Analysis, without a bump and without a bumped dependency, stays absent.
C25_Witness ==
  /\ CascadeDone
  /\ moduleGraph.outgoingEdges = [Core |-> {}, Lab |-> {"Core"}, Analysis |-> {}]
  /\ moduleBumps = [Core |-> "minor", Lab |-> "patch"]
  /\ ~ret.threw
  /\ ret.value = [Core |-> "minor", Lab |-> "minor"]
  /\ "Analysis" \notin DOMAIN ret.value

\* C26: propagateDependencyCascade is idempotent: for every module graph,
\* acyclic or cyclic, and every input map, cascading the result again over
\* the same graph returns a map equal to the first result.
C26_Idempotent ==
  CascadeDone =>
    /\ ~ret.threw
    /\ \A again \in propagateDependencyCascade(moduleGraph, ret.value) :
         /\ ~again.threw
         /\ again.value = ret.value

\* Analysis -> Lab -> Core with only Core bumped: the first call changed the
\* map (Lab and Analysis were added) and a second call adds nothing more.
C26_Witness ==
  /\ CascadeDone
  /\ moduleGraph.outgoingEdges = [Core |-> {}, Lab |-> {"Core"}, Analysis |-> {"Lab"}]
  /\ moduleBumps = [Core |-> "minor"]
  /\ ~ret.threw
  /\ ret.value # moduleBumps
  /\ Return(ret.value) \in propagateDependencyCascade(moduleGraph, ret.value)

\* The same on a graph with a cycle: both calls return their input.
C26_CycleWitness ==
  /\ CascadeDone
  /\ moduleGraph.outgoingEdges = [Core |-> {"Lab"}, Lab |-> {"Core"}, Analysis |-> {"Lab"}]
  /\ moduleBumps = [Core |-> "minor"]
  /\ ~ret.threw
  /\ propagateDependencyCascade(moduleGraph, ret.value) = {Return(moduleBumps)}

\* C27: in the result of calculateVersionCascade the changes are
\* partitioned: every change record is either in orphanChanges or refers to
\* an entity whose owning module is a key of moduleBumps with a bump at least
\* as high as the record's changeType, and never both.
C27_ChangesPartitioned ==
  VersionDone =>
    /\ ~ret.threw
    /\ \A i \in DOMAIN Detected :
         LET change == Detected[i]
             orphan == change \in Range(ret.value.orphanChanges)
             bumped == /\ HasOwner(entityIndex, change)
                       /\ OwnerOf(entityIndex, change) \in DOMAIN ret.value.moduleBumps
                       /\ AtLeast(ret.value.moduleBumps[OwnerOf(entityIndex, change)],
                                  change.changeType)
         IN  orphan # bumped

\* The two decisions taken on the lookup key agree: a record is kept by the
\* orphan filter exactly if calculateModuleBumps skipped it, and a record
\* that was not skipped raised the bump of the module found under its key.
C27_DecisionsAgree ==
  VersionDone =>
    /\ ~ret.threw
    /\ \A i \in DOMAIN Detected :
         LET change == Detected[i]
             reverseIndex == buildReverseModuleIndex(entityIndex)
             skipped == ChangeKey(change) \notin DOMAIN reverseIndex
         IN  /\ change \in Range(ret.value.orphanChanges) <=> skipped
             /\ ~skipped =>
                  /\ reverseIndex[ChangeKey(change)] \in DOMAIN ret.value.moduleBumps
                  /\ AtLeast(ret.value.moduleBumps[reverseIndex[ChangeKey(change)]],
                             change.changeType)

\* The module ids a bundle of the index names
MembersOf(index, i) ==
  IF index.bundles[i].modules = Null THEN {} ELSE Range(index.bundles[i].modules)

\* C28: in every result of calculateVersionCascade, ontologyBump is at least
\* as high as every value in moduleBumps and every value in bundleBumps, and
\* each bundle's bump is at least as high as the bump of each of its member
\* modules that has one.
C28_BumpsOrdered ==
  VersionDone =>
    /\ ~ret.threw
    /\ \A m \in DOMAIN ret.value.moduleBumps :
         AtLeast(ret.value.ontologyBump, ret.value.moduleBumps[m])
    /\ \A b \in DOMAIN ret.value.bundleBumps :
         AtLeast(ret.value.ontologyBump, ret.value.bundleBumps[b])
    /\ \A i \in DOMAIN entityIndex.bundles :
         \A m \in MembersOf(entityIndex, i) \cap DOMAIN ret.value.moduleBumps :
           /\ entityIndex.bundles[i].id \in DOMAIN ret.value.bundleBumps
           /\ AtLeast(ret.value.bundleBumps[entityIndex.bundles[i].id],
                      ret.value.moduleBumps[m])

\* Core (patch, from the category Agent) and Lab (major, from the template
\* Page) are independent: Default, holding both, is major, and so are Full
\* and the ontology.
C28_Witness ==
  /\ VersionDone
  /\ ~ret.threw
  /\ Detected = <<ChangeRecord("categories", <<"Agent">>, "patch"),
                  ChangeRecord("templates", <<"Page">>, "major")>>
  /\ ret.value.moduleBumps = [Core |-> "patch", Lab |-> "major"]
  /\ ret.value.bundleBumps = [Default |-> "major", Full |-> "major"]
  /\ ret.value.ontologyBump = "major"

\* The module that lists id under type and comes last in the iteration order
\* of index.modules
LastListing(index, type, id) ==
  LET listing == {j \in DOMAIN index.modules : id \in index.modules[j][type]}
  IN  index.modules[CHOOSE j \in listing : \A k \in listing : k <= j].id

\* id is listed under type by more than one module
SharedListing(index, type, id) == Cardinality(ListingModules(index, type, id)) > 1

\* Every change of the array is a change of the entity type:id
OnlyChangesOf(changeList, type, id) ==
  /\ Len(changeList) > 0
  /\ \A i \in DOMAIN changeList : ChangedEntity(changeList[i]) = Key(type, id)

\* C29: when the same entity id is listed under the same type by more than
\* one module, buildReverseModuleIndex maps it to exactly one owner, the
\* module that comes last in the iteration order of the modules, and the
\* earlier listing modules receive no bump from changes to that entity.
C29_LastListingModuleOwns ==
  ModuleDone =>
    \A type \in DOMAIN EntityIds : \A id \in AnyId :
      SharedListing(entityIndex, type, id) =>
        /\ buildReverseModuleIndex(entityIndex)[Key(type, id)]
             = LastListing(entityIndex, type, id)
        /\ OnlyChangesOf(changes, type, id) =>
             \A m \in ListingModules(entityIndex, type, id) :
               m # LastListing(entityIndex, type, id) => m \notin DOMAIN ret

\* The owner of a shared entity in the reverse index is its last listing
\* module
C29_OwnerIsLastListing ==
  ReverseDone =>
    \A type \in DOMAIN EntityIds : \A id \in AnyId :
      SharedListing(entityIndex, type, id) =>
        ret[Key(type, id)] = LastListing(entityIndex, type, id)

\* The changes of a shared entity whose id holds no path separator bump its
\* last listing module and no other
C29_FlatIds ==
  ModuleDone =>
    \A type \in DOMAIN EntityIds : \A id \in {x \in AnyId : Len(x) = 1} :
      (SharedListing(entityIndex, type, id) /\ OnlyChangesOf(changes, type, id)) =>
        DOMAIN ret = {LastListing(entityIndex, type, id)}

C30_CycleWitness ==
  /\ CascadeDone
  /\ moduleGraph.outgoingEdges = [Core |-> {"Lab"}, Lab |-> {"Core"}, Analysis |-> {}]
  /\ moduleBumps = [Lab |-> "patch"]
  /\ ~ret.threw
  /\ ret.value = moduleBumps

(***************************************************************************)
(* Every call together                                                     *)
(***************************************************************************)
Init ==
  \/ InitMax \/ InitCascade \/ InitModule \/ InitBundle \/ InitOntology
  \/ InitVersion \/ InitScope \/ InitReverse \/ InitValidate
  \/ InitOverrides \/ InitNewVersion

Next ==
  \/ NextMax \/ NextCascade \/ NextModule \/ NextBundle \/ NextOntology
  \/ NextVersion \/ NextScope \/ NextReverse \/ NextValidate
  \/ NextOverrides \/ NextNewVersion

Spec == Init /\ [][Next]_vars

====
